---- MODULE Spec2Model ----
(***************************************************************************)
(* Cache-aside layer and engagement counters of the blog service           *)
(* (blog.service.ts, second version, src/src/app/routes/index.ts:718-1085).*)
(*                                                                         *)
(* Every request handler is an async function: each awaited Redis or       *)
(* Prisma call is one atomic step at the store, and the handler's local    *)
(* code up to the next awaited call runs with it.  pc[p] names the next    *)
(* awaited call of request slot p, loc[p] holds the handler's locals.      *)
(* A Redis call that fails is a step of its own (the _Down actions): the   *)
(* catch branch of the wrapper runs and the cache is left as it was.       *)
(* Timestamps (createdAt, updatedAt) and the joined user row are left out  *)
(* of the post record; createdAt order is the order of the ids.            *)
(***************************************************************************)
EXTENDS Integers, Sequences, FiniteSets, TLC

VARIABLES
  db,        \* Durable Store: existing post id -> post record
  cache,     \* Fast Cache: present key -> value
  pc,        \* request slot -> label of its next awaited call
  loc,       \* request slot -> locals of the running handler
  hist       \* history: nCalls     number of service calls begun
             \*          recorded   post id -> incrementViews invocations
             \*          flushLog   durable view increments issued, in order
             \*          populated  lookup keys filled by a finished read that
             \*                     missed, the post not mutated since
             \*          sdPre      keys cached when the last soft delete began
             \*          created    number of post ids issued so far
             \*          run        1, or 2 when a request sequence is run again
             \*          script     the requests of run 1 and their outcomes

vars == <<db, cache, pc, loc, hist>>

\* ---------------------------------------------------------------- bounds
NProcs == 2
MaxRecordViews == 21
MaxSeqViewCalls == 13
MaxSeqCalls == 4
MaxRaceCalls == 3
MaxSlugCalls == 2
MaxTags == 3
MaxLimit == 2
MaxHangCalls == 2

Procs == 1..NProcs
AllIds == {"p1", "p2"}
Slugs == {"s1", "s2"}
Users == {"u1", "u2"}
Titles == {"t1", "t2"}
Tags == {"a", "b"}

\* ------------------------------------------------------------ cache keys
CacheKeysBlog(id) == "blog:" \o id
CacheKeysBlogSlug(slug) == "blog:slug:" \o slug
CacheKeysAllBlogs(page, limit) == "blogs:all:" \o ToString(page) \o ":" \o ToString(limit)
CacheKeysMyBlogs(userId) == "blogs:user:" \o userId
CacheKeysTrending == "blogs:trending"
CacheKeysViews(id) == "blog:views:" \o id
CacheKeysLikes(id) == "blog:likes:" \o id
CacheKeysUserLike(userId, blogId) == "blog:userlike:" \o userId \o ":" \o blogId

\* ------------------------------------------------------- Redis primitives
HasPrefix(k, pre) == Len(k) >= Len(pre) /\ SubSeq(k, 1, Len(pre)) = pre

\* GET: a key holds a value or is absent (null); every stored value is truthy.
redisHas(c, k) == k \in DOMAIN c
redisSetex(c, k, v) == [x \in DOMAIN c \cup {k} |-> IF x = k THEN v ELSE c[x]]
redisDel(c, ks) == [x \in DOMAIN c \ ks |-> c[x]]
\* KEYS 'prefix*'
redisKeys(c, pre) == {k \in DOMAIN c : HasPrefix(k, pre)}
\* INCR / DECR: atomic; an absent key counts as 0.  Returns the new value.
redisCounter(c, k) == IF k \in DOMAIN c THEN c[k] ELSE 0
redisIncr(c, k) == redisCounter(c, k) + 1
redisDecr(c, k) == redisCounter(c, k) - 1

\* ------------------------------------------------------------------ posts
NoBlog == [id |-> "", slug |-> "", title |-> "", published |-> FALSE,
           isDeleted |-> FALSE, userId |-> "", likes |-> 0, views |-> 0,
           createdAt |-> 0, tags |-> {}]

\* prisma.blogs.create: likes, views and isDeleted take the schema defaults;
\* tags: tags || [] for a request body that carries no tags
NewBlog(id, slug, title, published, userId, createdAt) ==
  [id |-> id, slug |-> slug, title |-> title, published |-> published,
   isDeleted |-> FALSE, userId |-> userId, likes |-> 0, views |-> 0,
   createdAt |-> createdAt, tags |-> {}]

\* the record of a post created with the tags of the set given
Tagged(blog, tags) == [blog EXCEPT !.tags = tags]

\* prisma.blogs.findUnique({ where: { slug } })
FindBySlug(d, slug) == {d[i] : i \in {j \in DOMAIN d : d[j].slug = slug}}

\* the fields of an update request; "" is a field the request does not give
NoPatch == [slug |-> "", title |-> ""]
\* the update requests made: a new slug, a new title, or both
Patches == [slug : Slugs \cup {""}, title : {"", "t2"}] \ {NoPatch}
\* the update requests that give one field: a slug not in use, or a title
OneFieldPatches == {[slug |-> "s2", title |-> ""], [slug |-> "", title |-> "t2"]}

\* prisma.blogs.findFirst({ where: id ? { id } : { slug } })
FindBlog(d, id, slug) ==
  IF id # "" THEN (IF id \in DOMAIN d THEN {d[id]} ELSE {})
  ELSE {d[i] : i \in {j \in DOMAIN d : d[j].slug = slug}}

IdleLoc == [op |-> "", id |-> "", slug |-> "", user |-> "", key |-> "",
            blog |-> NoBlog, views |-> 0, keys |-> {}, ret |-> "",
            result |-> "", out |-> NoBlog, hit |-> FALSE, pre |-> {},
            invId |-> "", invSlug |-> "", after |-> {}, patch |-> NoPatch,
            list |-> <<>>, total |-> 0, page |-> 0, limit |-> 0,
            db0 |-> [i \in {} |-> NoBlog], quiet |-> FALSE,
            cache0 |-> [k \in {} |-> 0], call |-> 0, tags |-> <<>>]

\* the requests already answered when a request begins
Answered == {q \in Procs : pc[q] = "done"}

\* history kept with a request when it begins
Begun(p, l) ==
  [l EXCEPT !.pre = DOMAIN cache, !.after = Answered,
            !.db0 = db, !.cache0 = cache, !.call = hist.nCalls + 1,
            !.quiet = \A q \in Procs \ {p} : pc[q] \in {"idle", "done"}]


\* The locals a finished handler no longer reads are dropped.
Cleanup(l) ==
  IF l.ret = "done"
    THEN [l EXCEPT !.blog = NoBlog, !.views = 0, !.keys = {}, !.ret = "",
                   !.invId = "", !.invSlug = "", !.total = 0]
    ELSE l

Quiescent == \A p \in Procs : pc[p] \in {"idle", "done"}
AllIdle == \A p \in Procs : pc[p] = "idle"

\* ------------------------------------------------------------------- init
InitHist ==
  hist = [nCalls |-> 0, recorded |-> [i \in AllIds |-> 0], flushLog |-> <<>>,
          populated |-> {}, sdPre |-> {}, created |-> 1,
          run |-> 1, script |-> <<>>]

InitProcs ==
  /\ pc = [p \in Procs |-> "idle"]
  /\ loc = [p \in Procs |-> IdleLoc]

\* One published post, written some time ago: its cache entries have expired.
Init ==
  /\ db = [i \in {"p1"} |-> NewBlog("p1", "s1", "t1", TRUE, "u1", 1)]
  /\ cache = [k \in {} |-> 0]
  /\ InitProcs
  /\ InitHist

\* The post has just been created by createIntoDb: its snapshot is cached
\* under its primary key and its slug key.
InitCreated ==
  /\ db = [i \in {"p1"} |-> NewBlog("p1", "s1", "t1", TRUE, "u1", 1)]
  /\ cache = [k \in {CacheKeysBlog("p1"), CacheKeysBlogSlug("s1")} |->
                NewBlog("p1", "s1", "t1", TRUE, "u1", 1)]
  /\ InitProcs
  /\ InitHist

\* requests served one at a time use the first slot
Slot1 == CHOOSE p \in Procs : \A q \in Procs : p <= q

\* --------------------------------------------------------------- getBlog
\* getBlogByIdFromDB(id) / getBlogBySlug(slug): const cacheKey = ...
BeginGet(p, id, slug) ==
  /\ pc[p] = "idle"
  /\ pc' = [pc EXCEPT ![p] = "g_get"]
  /\ loc' = [loc EXCEPT ![p] = Begun(p,
       [IdleLoc EXCEPT !.op = "getBlog", !.id = id, !.slug = slug,
          !.key = IF id # "" THEN CacheKeysBlog(id) ELSE CacheKeysBlogSlug(slug)])]
  /\ hist' = [hist EXCEPT !.nCalls = @ + 1]
  /\ UNCHANGED <<db, cache>>

\* const cached = await safeRedisGet(cacheKey); if (cached) { blog = parse; incrementViews(blog.id) ...
GetBlog_Cache(p) ==
  /\ pc[p] = "g_get"
  /\ IF redisHas(cache, loc[p].key)
       THEN /\ loc' = [loc EXCEPT ![p].blog = cache[loc[p].key],
                                  ![p].hit = TRUE, ![p].ret = "g_merge"]
            /\ pc' = [pc EXCEPT ![p] = "iv_incr"]
            /\ hist' = [hist EXCEPT !.recorded[cache[loc[p].key].id] = @ + 1]
       ELSE /\ pc' = [pc EXCEPT ![p] = "g_db"]
            /\ UNCHANGED <<loc, hist>>
  /\ UNCHANGED <<db, cache>>

\* if (!blog || blog.isDeleted) throw NOT_FOUND
BlogMissing_IgnoresDeleted(found) == found = {}
BlogMissing(found) == found = {} \/ \E b \in found : b.isDeleted

\* const blog = await prisma.blogs.findFirst(...)
GetBlog_Db_CountsMissing(p) ==
  /\ pc[p] = "g_db"
  /\ LET found == FindBlog(db, loc[p].id, loc[p].slug) IN
       IF BlogMissing(found)
         THEN /\ pc' = [pc EXCEPT ![p] = "iv_incr"]
              /\ loc' = [loc EXCEPT ![p].result = "NotFound", ![p].ret = "done",
                           ![p].blog = [NoBlog EXCEPT !.id = "p1"]]
         ELSE /\ pc' = [pc EXCEPT ![p] = "g_set"]
              /\ loc' = [loc EXCEPT ![p].blog = CHOOSE b \in found : TRUE]
  /\ UNCHANGED <<db, cache, hist>>
GetBlog_Db(p) ==
  /\ pc[p] = "g_db"
  /\ LET found == FindBlog(db, loc[p].id, loc[p].slug) IN
       IF BlogMissing(found)
         THEN /\ pc' = [pc EXCEPT ![p] = "done"]
              /\ loc' = [loc EXCEPT ![p].result = "NotFound"]
         ELSE /\ pc' = [pc EXCEPT ![p] = "g_set"]
              /\ loc' = [loc EXCEPT ![p].blog = CHOOSE b \in found : TRUE]
  /\ UNCHANGED <<db, cache, hist>>

\* await safeRedisSet(cacheKey, CacheTTL.blog, JSON.stringify(blog)); incrementViews(blog.id)
GetBlog_Set(p) ==
  /\ pc[p] = "g_set"
  /\ cache' = redisSetex(cache, loc[p].key, loc[p].blog)
  /\ pc' = [pc EXCEPT ![p] = "iv_incr"]
  /\ loc' = [loc EXCEPT ![p].ret = "done", ![p].result = "ok", ![p].out = loc[p].blog]
  /\ hist' = [hist EXCEPT !.recorded[loc[p].blog.id] = @ + 1]
  /\ UNCHANGED db

\* const redisViews = parseInt((await safeRedisGet(views key)) || '0');
\* blog.views = blog.views + redisViews; return blog
GetBlog_Merge(p) ==
  /\ pc[p] = "g_merge"
  /\ LET redisViews == redisCounter(cache, CacheKeysViews(loc[p].blog.id)) IN
       loc' = [loc EXCEPT ![p] = Cleanup([loc[p] EXCEPT !.ret = "done",
                 !.result = "ok",
                 !.out = [loc[p].blog EXCEPT !.views = @ + redisViews]])]
  /\ pc' = [pc EXCEPT ![p] = "done"]
  /\ UNCHANGED <<db, cache, hist>>

\* -------------------------------------------------------- incrementViews
BatchSize == 10

\* if (views % 10 === 0)
ViewsFlushDue_Off(views) == views % BatchSize = 1
ViewsFlushDue(views) == views % BatchSize = 0

\* incrementViews(blogId) called on its own (a view of an existing post)
BeginRecordView(p, id) ==
  /\ pc[p] = "idle"
  /\ pc' = [pc EXCEPT ![p] = "iv_incr"]
  /\ loc' = [loc EXCEPT ![p] =
       [IdleLoc EXCEPT !.op = "recordView", !.blog = [NoBlog EXCEPT !.id = id],
          !.ret = "done", !.result = "ok"]]
  /\ hist' = [hist EXCEPT !.nCalls = @ + 1, !.recorded[id] = @ + 1]
  /\ UNCHANGED <<db, cache>>

\* const views = await redis.incr(CacheKeys.views(blogId))
IncrementViews_Incr(p) ==
  /\ pc[p] = "iv_incr"
  /\ LET k == CacheKeysViews(loc[p].blog.id)
         v == redisIncr(cache, k) IN
       /\ cache' = redisSetex(cache, k, v)
       /\ loc' = [loc EXCEPT ![p].views = IF ViewsFlushDue(v) THEN v ELSE 0]
       /\ pc' = [pc EXCEPT ![p] = IF ViewsFlushDue(v) THEN "iv_flush" ELSE "iv_del"]
  /\ UNCHANGED <<db, hist>>

\* await prisma.blogs.update({ where: { id }, data: { views: { increment: 10 } } })
\* a missing record makes update throw: caught, and the DEL below is skipped
IncrementViews_Flush(p) ==
  /\ pc[p] = "iv_flush"
  /\ LET id == loc[p].blog.id IN
       IF id \in DOMAIN db
         THEN /\ db' = [db EXCEPT ![id].views = @ + BatchSize]
              /\ hist' = [hist EXCEPT !.flushLog = Append(@,
                   [id |-> id, at |-> loc[p].views, amt |-> BatchSize])]
              /\ pc' = [pc EXCEPT ![p] = "iv_del"]
              /\ loc' = [loc EXCEPT ![p].views = 0]
         ELSE /\ pc' = [pc EXCEPT ![p] = loc[p].ret]
              /\ loc' = [loc EXCEPT ![p] = Cleanup(loc[p])]
              /\ UNCHANGED <<db, hist>>
  /\ UNCHANGED cache

\* the same update when the Durable Store fails it: thrown inside try,
\* caught at line 932, incrementViews returns without the DEL
IncrementViews_Flush_Fail(p) ==
  /\ pc[p] = "iv_flush"
  /\ pc' = [pc EXCEPT ![p] = loc[p].ret]
  /\ loc' = [loc EXCEPT ![p] = Cleanup(loc[p])]
  /\ UNCHANGED <<db, cache, hist>>

\* await safeRedisDel(CacheKeys.blog(blogId))  -- on every view
IncrementViews_Del(p) ==
  /\ pc[p] = "iv_del"
  /\ cache' = redisDel(cache, {CacheKeysBlog(loc[p].blog.id)})
  /\ pc' = [pc EXCEPT ![p] = loc[p].ret]
  /\ loc' = [loc EXCEPT ![p] = Cleanup(loc[p])]
  /\ UNCHANGED <<db, hist>>

\* --------------------------------------------------- invalidateBlogCache
\* const keysToDelete = [CacheKeys.blog(blogId), CacheKeys.trending()];
\* if (slug) keysToDelete.push(CacheKeys.blogSlug(slug))
KeysToDelete_NoSlug(blogId, slug) == {CacheKeysBlog(blogId), CacheKeysTrending}
KeysToDelete_NoTrending(blogId, slug) ==
  {CacheKeysBlog(blogId)} \cup (IF slug # "" THEN {CacheKeysBlogSlug(slug)} ELSE {})
KeysToDelete_WithViews(blogId, slug) ==
  {CacheKeysBlog(blogId), CacheKeysTrending, CacheKeysViews(blogId)}
    \cup (IF slug # "" THEN {CacheKeysBlogSlug(slug)} ELSE {})

KeysToDelete(blogId, slug) ==
  {CacheKeysBlog(blogId), CacheKeysTrending}
    \cup (IF slug # "" THEN {CacheKeysBlogSlug(slug)} ELSE {})

\* const listKeys = await redis.keys('blogs:all:*')
Invalidate_ListKeys(p) ==
  /\ pc[p] = "inv_all"
  /\ loc' = [loc EXCEPT ![p].keys = redisKeys(cache, "blogs:all:")]
  /\ pc' = [pc EXCEPT ![p] = "inv_user"]
  /\ UNCHANGED <<db, cache, hist>>

\* const userBlogsKeys = await redis.keys('blogs:user:*')
Invalidate_UserKeys(p) ==
  /\ pc[p] = "inv_user"
  /\ loc' = [loc EXCEPT ![p].keys = @ \cup redisKeys(cache, "blogs:user:")]
  /\ pc' = [pc EXCEPT ![p] = "inv_del"]
  /\ UNCHANGED <<db, cache, hist>>

\* await safeRedisDel(...keysToDelete, ...listKeys, ...userBlogsKeys)
Invalidate_Del(p) ==
  /\ pc[p] = "inv_del"
  /\ cache' = redisDel(cache, KeysToDelete(loc[p].invId, loc[p].invSlug) \cup loc[p].keys)
  /\ pc' = [pc EXCEPT ![p] = loc[p].ret]
  /\ loc' = [loc EXCEPT ![p] = Cleanup(loc[p])]
  /\ UNCHANGED <<db, hist>>

InvSteps(p) ==
  \/ Invalidate_ListKeys(p)
  \/ Invalidate_UserKeys(p)
  \/ Invalidate_Del(p)

\* -------------------------------------------------------------- likeBlog
BeginLike(p, blogId, userId) ==
  /\ pc[p] = "idle"
  /\ pc' = [pc EXCEPT ![p] = "l_get"]
  /\ loc' = [loc EXCEPT ![p] = Begun(p,
       [IdleLoc EXCEPT !.op = "like", !.id = blogId, !.user = userId,
          !.key = CacheKeysUserLike(userId, blogId)])]
  /\ hist' = [hist EXCEPT !.nCalls = @ + 1]
  /\ UNCHANGED <<db, cache>>

\* if (await safeRedisGet(userLikeKey)) throw BAD_REQUEST 'You have already liked this blog'
LikeBlog_Check_CountsFirst(p) ==
  /\ pc[p] = "l_get"
  /\ IF redisHas(cache, loc[p].key)
       THEN /\ pc' = [pc EXCEPT ![p] = "done"]
            /\ loc' = [loc EXCEPT ![p].result = "AlreadyLiked"]
       ELSE /\ pc' = [pc EXCEPT ![p] = "l_set"]
            /\ UNCHANGED loc
  /\ LET k == CacheKeysLikes(loc[p].id) IN cache' = redisSetex(cache, k, redisIncr(cache, k))
  /\ UNCHANGED <<db, hist>>

LikeBlog_Check(p) ==
  /\ pc[p] = "l_get"
  /\ IF redisHas(cache, loc[p].key)
       THEN /\ pc' = [pc EXCEPT ![p] = "done"]
            /\ loc' = [loc EXCEPT ![p].result = "AlreadyLiked"]
       ELSE /\ pc' = [pc EXCEPT ![p] = "l_set"]
            /\ UNCHANGED loc
  /\ UNCHANGED <<db, cache, hist>>

\* await safeRedisSet(userLikeKey, CacheTTL.userLike, '1')
LikeBlog_SetMarker_Skip(p) ==
  /\ pc[p] = "l_set"
  /\ pc' = [pc EXCEPT ![p] = "l_incr"]
  /\ UNCHANGED <<db, cache, loc, hist>>
LikeBlog_SetMarker(p) ==
  /\ pc[p] = "l_set"
  /\ cache' = redisSetex(cache, loc[p].key, "1")
  /\ pc' = [pc EXCEPT ![p] = "l_incr"]
  /\ UNCHANGED <<db, loc, hist>>

\* await redis.incr(CacheKeys.likes(blogId)).catch(() => {})
LikeBlog_Incr(p) ==
  /\ pc[p] = "l_incr"
  /\ LET k == CacheKeysLikes(loc[p].id) IN cache' = redisSetex(cache, k, redisIncr(cache, k))
  /\ pc' = [pc EXCEPT ![p] = "l_db"]
  /\ UNCHANGED <<db, loc, hist>>

\* await prisma.blogs.update({ where: { id: blogId }, data: { likes: { increment: 1 } } });
\* a missing record makes update throw; then invalidateBlogCache(blogId)
LikeBlog_Db(p) ==
  /\ pc[p] = "l_db"
  /\ LET id == loc[p].id IN
       IF id \in DOMAIN db
         THEN /\ db' = [db EXCEPT ![id].likes = @ + 1]
              /\ pc' = [pc EXCEPT ![p] = "inv_all"]
              /\ loc' = [loc EXCEPT ![p].invId = id, ![p].invSlug = "",
                                    ![p].ret = "done", ![p].result = "ok"]
              /\ hist' = [hist EXCEPT !.populated = {}]
         ELSE /\ pc' = [pc EXCEPT ![p] = "done"]
              /\ loc' = [loc EXCEPT ![p].result = "Error"]
              /\ UNCHANGED <<db, hist>>
  /\ UNCHANGED cache

LikeSteps(p) ==
  \/ LikeBlog_Check(p)
  \/ LikeBlog_SetMarker(p)
  \/ LikeBlog_Incr(p)
  \/ LikeBlog_Db(p)

\* ------------------------------------------------------------ unlikeBlog
BeginUnlike(p, blogId, userId) ==
  /\ pc[p] = "idle"
  /\ pc' = [pc EXCEPT ![p] = "ul_get"]
  /\ loc' = [loc EXCEPT ![p] = Begun(p,
       [IdleLoc EXCEPT !.op = "unlike", !.id = blogId, !.user = userId,
          !.key = CacheKeysUserLike(userId, blogId)])]
  /\ hist' = [hist EXCEPT !.nCalls = @ + 1]
  /\ UNCHANGED <<db, cache>>

\* if (!(await safeRedisGet(userLikeKey))) throw BAD_REQUEST "You haven't liked this blog"
UnlikeBlog_Check(p) ==
  /\ pc[p] = "ul_get"
  /\ IF redisHas(cache, loc[p].key)
       THEN /\ pc' = [pc EXCEPT ![p] = "ul_del"]
            /\ UNCHANGED loc
       ELSE /\ pc' = [pc EXCEPT ![p] = "done"]
            /\ loc' = [loc EXCEPT ![p].result = "NotLiked"]
  /\ UNCHANGED <<db, cache, hist>>

\* await safeRedisDel(userLikeKey)
UnlikeBlog_DelMarker_Skip(p) ==
  /\ pc[p] = "ul_del"
  /\ pc' = [pc EXCEPT ![p] = "ul_decr"]
  /\ UNCHANGED <<db, cache, loc, hist>>
UnlikeBlog_DelMarker(p) ==
  /\ pc[p] = "ul_del"
  /\ cache' = redisDel(cache, {loc[p].key})
  /\ pc' = [pc EXCEPT ![p] = "ul_decr"]
  /\ UNCHANGED <<db, loc, hist>>

\* await redis.decr(CacheKeys.likes(blogId)).catch(() => {})
UnlikeBlog_Decr(p) ==
  /\ pc[p] = "ul_decr"
  /\ LET k == CacheKeysLikes(loc[p].id) IN cache' = redisSetex(cache, k, redisDecr(cache, k))
  /\ pc' = [pc EXCEPT ![p] = "ul_db"]
  /\ UNCHANGED <<db, loc, hist>>

\* await prisma.blogs.update({ where: { id: blogId }, data: { likes: { decrement: 1 } } });
\* then invalidateBlogCache(blogId)
UnlikeBlog_Db(p) ==
  /\ pc[p] = "ul_db"
  /\ LET id == loc[p].id IN
       IF id \in DOMAIN db
         THEN /\ db' = [db EXCEPT ![id].likes = @ - 1]
              /\ pc' = [pc EXCEPT ![p] = "inv_all"]
              /\ loc' = [loc EXCEPT ![p].invId = id, ![p].invSlug = "",
                                    ![p].ret = "done", ![p].result = "ok"]
              /\ hist' = [hist EXCEPT !.populated = {}]
         ELSE /\ pc' = [pc EXCEPT ![p] = "done"]
              /\ loc' = [loc EXCEPT ![p].result = "Error"]
              /\ UNCHANGED <<db, hist>>
  /\ UNCHANGED cache

UnlikeSteps(p) ==
  \/ UnlikeBlog_Check(p)
  \/ UnlikeBlog_DelMarker(p)
  \/ UnlikeBlog_Decr(p)
  \/ UnlikeBlog_Db(p)

\* ------------------------------------------------------------ updateIntoDb
\* data: { ...data, updatedAt }
ApplyPatch(b, patch) ==
  [b EXCEPT !.slug = IF patch.slug # "" THEN patch.slug ELSE @,
            !.title = IF patch.title # "" THEN patch.title ELSE @]

BeginUpdate(p, id, patch) ==
  /\ pc[p] = "idle"
  /\ pc' = [pc EXCEPT ![p] = "u_find"]
  /\ loc' = [loc EXCEPT ![p] = Begun(p,
       [IdleLoc EXCEPT !.op = "update", !.id = id, !.patch = patch])]
  /\ hist' = [hist EXCEPT !.nCalls = @ + 1]
  /\ UNCHANGED <<db, cache>>

\* const existingBlog = await prisma.blogs.findUnique({ where: { id } });
\* if (!existingBlog || existingBlog.isDeleted) throw NOT_FOUND
UpdateIntoDb_Find(p) ==
  /\ pc[p] = "u_find"
  /\ LET found == FindBlog(db, loc[p].id, "") IN
       IF BlogMissing(found)
         THEN /\ pc' = [pc EXCEPT ![p] = "done"]
              /\ loc' = [loc EXCEPT ![p].result = "NotFound"]
         ELSE LET existingBlog == CHOOSE b \in found : TRUE IN
              /\ loc' = [loc EXCEPT ![p].blog = existingBlog]
              /\ pc' = [pc EXCEPT ![p] =
                   IF loc[p].patch.slug # "" /\ loc[p].patch.slug # existingBlog.slug
                     THEN "u_slug" ELSE "u_db"]
  /\ UNCHANGED <<db, cache, hist>>

\* const slugExists = await prisma.blogs.findUnique({ where: { slug: data.slug } });
\* if (slugExists) throw CONFLICT
UpdateIntoDb_SlugCheck(p) ==
  /\ pc[p] = "u_slug"
  /\ IF FindBySlug(db, loc[p].patch.slug) # {}
       THEN /\ pc' = [pc EXCEPT ![p] = "done"]
            /\ loc' = [loc EXCEPT ![p] =
                 Cleanup([loc[p] EXCEPT !.result = "Conflict", !.ret = "done"])]
       ELSE /\ pc' = [pc EXCEPT ![p] = "u_db"]
            /\ UNCHANGED loc
  /\ UNCHANGED <<db, cache, hist>>

\* const updatedBlog = await prisma.blogs.update({ where: { id }, data });
\* update throws when the record is gone or the new slug is taken (unique);
\* then invalidateBlogCache(id, existingBlog.slug)
UpdateIntoDb_Db(p) ==
  /\ pc[p] = "u_db"
  /\ LET id == loc[p].id IN
       IF id \in DOMAIN db
          /\ \A j \in DOMAIN db \ {id} : db[j].slug # ApplyPatch(db[id], loc[p].patch).slug
         THEN /\ db' = [db EXCEPT ![id] = ApplyPatch(@, loc[p].patch)]
              /\ pc' = [pc EXCEPT ![p] = "inv_all"]
              /\ loc' = [loc EXCEPT ![p].out = ApplyPatch(db[id], loc[p].patch),
                                    ![p].invId = id, ![p].invSlug = loc[p].blog.slug,
                                    ![p].ret = "u_set"]
              /\ hist' = [hist EXCEPT !.populated = {}]
         ELSE /\ pc' = [pc EXCEPT ![p] = "done"]
              /\ loc' = [loc EXCEPT ![p] =
                   Cleanup([loc[p] EXCEPT !.result = "Error", !.ret = "done"])]
              /\ UNCHANGED <<db, hist>>
  /\ UNCHANGED cache

\* await safeRedisSet(CacheKeys.blog(id), CacheTTL.blog, JSON.stringify(updatedBlog));
\* if (updatedBlog.slug !== existingBlog.slug) ...
UpdateIntoDb_Set(p) ==
  /\ pc[p] = "u_set"
  /\ cache' = redisSetex(cache, CacheKeysBlog(loc[p].id), loc[p].out)
  /\ IF loc[p].out.slug # loc[p].blog.slug
       THEN /\ pc' = [pc EXCEPT ![p] = "u_setslug"]
            /\ UNCHANGED loc
       ELSE /\ pc' = [pc EXCEPT ![p] = "done"]
            /\ loc' = [loc EXCEPT ![p] =
                 Cleanup([loc[p] EXCEPT !.result = "ok", !.ret = "done"])]
  /\ UNCHANGED <<db, hist>>

\* await safeRedisSet(CacheKeys.blogSlug(updatedBlog.slug), CacheTTL.blog, JSON.stringify(updatedBlog))
UpdateIntoDb_SetSlug(p) ==
  /\ pc[p] = "u_setslug"
  /\ cache' = redisSetex(cache, CacheKeysBlogSlug(loc[p].out.slug), loc[p].out)
  /\ pc' = [pc EXCEPT ![p] = "done"]
  /\ loc' = [loc EXCEPT ![p] = Cleanup([loc[p] EXCEPT !.result = "ok", !.ret = "done"])]
  /\ UNCHANGED <<db, hist>>

UpdateSteps(p) ==
  \/ UpdateIntoDb_Find(p)
  \/ UpdateIntoDb_SlugCheck(p)
  \/ UpdateIntoDb_Db(p)
  \/ UpdateIntoDb_Set(p)
  \/ UpdateIntoDb_SetSlug(p)

\* --------------------------------------------- deleteIntoDb, softDeleteIntoDb
BeginDelete(p, id) ==
  /\ pc[p] = "idle"
  /\ pc' = [pc EXCEPT ![p] = "d_find"]
  /\ loc' = [loc EXCEPT ![p] = Begun(p, [IdleLoc EXCEPT !.op = "delete", !.id = id])]
  /\ hist' = [hist EXCEPT !.nCalls = @ + 1]
  /\ UNCHANGED <<db, cache>>

\* const blog = await prisma.blogs.findUnique({ where: { id } }); if (!blog) throw NOT_FOUND
DeleteIntoDb_Find(p) ==
  /\ pc[p] = "d_find"
  /\ LET found == FindBlog(db, loc[p].id, "") IN
       IF found = {}
         THEN /\ pc' = [pc EXCEPT ![p] = "done"]
              /\ loc' = [loc EXCEPT ![p].result = "NotFound"]
         ELSE /\ pc' = [pc EXCEPT ![p] = "d_db"]
              /\ loc' = [loc EXCEPT ![p].blog = CHOOSE b \in found : TRUE]
  /\ UNCHANGED <<db, cache, hist>>

\* await prisma.blogs.delete({ where: { id } }); then invalidateBlogCache(id, blog.slug)
DeleteIntoDb_Db(p) ==
  /\ pc[p] = "d_db"
  /\ LET id == loc[p].id IN
       IF id \in DOMAIN db
         THEN /\ db' = [i \in DOMAIN db \ {id} |-> db[i]]
              /\ pc' = [pc EXCEPT ![p] = "inv_all"]
              /\ loc' = [loc EXCEPT ![p].invId = id, ![p].invSlug = loc[p].blog.slug,
                                    ![p].ret = "done", ![p].result = "ok"]
              /\ hist' = [hist EXCEPT !.populated = {}]
         ELSE /\ pc' = [pc EXCEPT ![p] = "done"]
              /\ loc' = [loc EXCEPT ![p] =
                   Cleanup([loc[p] EXCEPT !.result = "Error", !.ret = "done"])]
              /\ UNCHANGED <<db, hist>>
  /\ UNCHANGED cache

BeginSoftDelete(p, id) ==
  /\ pc[p] = "idle"
  /\ pc' = [pc EXCEPT ![p] = "sd_find"]
  /\ loc' = [loc EXCEPT ![p] = Begun(p, [IdleLoc EXCEPT !.op = "softDelete", !.id = id])]
  /\ hist' = [hist EXCEPT !.nCalls = @ + 1]
  /\ UNCHANGED <<db, cache>>

\* const blog = await prisma.blogs.findUnique({ where: { id } });
\* if (!blog || blog.isDeleted) throw NOT_FOUND
SoftDeleteIntoDb_Find(p) ==
  /\ pc[p] = "sd_find"
  /\ LET found == FindBlog(db, loc[p].id, "") IN
       IF BlogMissing(found)
         THEN /\ pc' = [pc EXCEPT ![p] = "done"]
              /\ loc' = [loc EXCEPT ![p].result = "NotFound"]
         ELSE /\ pc' = [pc EXCEPT ![p] = "sd_db"]
              /\ loc' = [loc EXCEPT ![p].blog = CHOOSE b \in found : TRUE]
  /\ UNCHANGED <<db, cache, hist>>

\* await prisma.blogs.update({ where: { id }, data: { isDeleted: true, updatedAt } });
\* then invalidateBlogCache(id, blog.slug)
SoftDeleteIntoDb_Db(p) ==
  /\ pc[p] = "sd_db"
  /\ LET id == loc[p].id IN
       IF id \in DOMAIN db
         THEN /\ db' = [db EXCEPT ![id].isDeleted = TRUE]
              /\ pc' = [pc EXCEPT ![p] = "inv_all"]
              /\ loc' = [loc EXCEPT ![p].invId = id, ![p].invSlug = loc[p].blog.slug,
                                    ![p].ret = "done", ![p].result = "ok"]
              /\ hist' = [hist EXCEPT !.populated = {}, !.sdPre = loc[p].pre]
         ELSE /\ pc' = [pc EXCEPT ![p] = "done"]
              /\ loc' = [loc EXCEPT ![p] =
                   Cleanup([loc[p] EXCEPT !.result = "Error", !.ret = "done"])]
              /\ UNCHANGED <<db, hist>>
  /\ UNCHANGED cache

DeleteSteps(p) ==
  \/ DeleteIntoDb_Find(p)
  \/ DeleteIntoDb_Db(p)

SoftDeleteSteps(p) ==
  \/ SoftDeleteIntoDb_Find(p)
  \/ SoftDeleteIntoDb_Db(p)

\* ------------------------------------------------------------ createIntoDb
\* the id the store issues to the next created post; ids are issued in order
NextId == "p" \o ToString(hist.created + 1)

\* const { title, slug, published } = req.body; userId = req.user.id
BeginCreate(p, slug, title, published, userId) ==
  /\ pc[p] = "idle"
  /\ pc' = [pc EXCEPT ![p] = "c_find"]
  /\ loc' = [loc EXCEPT ![p] = Begun(p,
       [IdleLoc EXCEPT !.op = "create", !.slug = slug, !.user = userId,
          !.blog = [NoBlog EXCEPT !.title = title, !.published = published]])]
  /\ hist' = [hist EXCEPT !.nCalls = @ + 1]
  /\ UNCHANGED <<db, cache>>

\* const existingBlog = await prisma.blogs.findUnique({ where: { slug } });
\* if (existingBlog) throw CONFLICT
CreateIntoDb_Find_NoCheck(p) ==
  /\ pc[p] = "c_find"
  /\ pc' = [pc EXCEPT ![p] = "c_db"]
  /\ UNCHANGED <<db, cache, loc, hist>>
CreateIntoDb_Find(p) ==
  /\ pc[p] = "c_find"
  /\ IF FindBySlug(db, loc[p].slug) # {}
       THEN /\ pc' = [pc EXCEPT ![p] = "done"]
            /\ loc' = [loc EXCEPT ![p] =
                 Cleanup([loc[p] EXCEPT !.result = "Conflict", !.ret = "done"])]
       ELSE /\ pc' = [pc EXCEPT ![p] = "c_db"]
            /\ UNCHANGED loc
  /\ UNCHANGED <<db, cache, hist>>

\* const blog = await prisma.blogs.create({ data: { title, slug, published, userId } });
\* slug is a unique column (findUnique by slug): create throws when it is taken
CreateIntoDb_Db(p) ==
  /\ pc[p] = "c_db"
  /\ IF FindBySlug(db, loc[p].slug) = {}
       THEN LET blog == NewBlog(NextId, loc[p].slug, loc[p].blog.title,
                                loc[p].blog.published, loc[p].user, hist.created + 1) IN
            /\ NextId \in AllIds
            /\ db' = [i \in DOMAIN db \cup {NextId} |-> IF i = NextId THEN blog ELSE db[i]]
            /\ hist' = [hist EXCEPT !.created = @ + 1]
            /\ pc' = [pc EXCEPT ![p] = "c_set"]
            /\ loc' = [loc EXCEPT ![p].id = NextId, ![p].out = blog, ![p].blog = NoBlog]
       ELSE /\ pc' = [pc EXCEPT ![p] = "done"]
            /\ loc' = [loc EXCEPT ![p] =
                 Cleanup([loc[p] EXCEPT !.result = "Error", !.ret = "done"])]
            /\ UNCHANGED <<db, hist>>
  /\ UNCHANGED cache

\* await safeRedisSet(CacheKeys.blog(blog.id), CacheTTL.blog, JSON.stringify(blog))
CreateIntoDb_Set(p) ==
  /\ pc[p] = "c_set"
  /\ cache' = redisSetex(cache, CacheKeysBlog(loc[p].out.id), loc[p].out)
  /\ pc' = [pc EXCEPT ![p] = "c_setslug"]
  /\ UNCHANGED <<db, loc, hist>>

\* await safeRedisSet(CacheKeys.blogSlug(blog.slug), CacheTTL.blog, JSON.stringify(blog))
CreateIntoDb_SetSlug(p) ==
  /\ pc[p] = "c_setslug"
  /\ cache' = redisSetex(cache, CacheKeysBlogSlug(loc[p].out.slug), loc[p].out)
  /\ pc' = [pc EXCEPT ![p] = "c_all"]
  /\ UNCHANGED <<db, loc, hist>>

\* const listKeys = await redis.keys('blogs:all:*')
CreateIntoDb_ListKeys(p) ==
  /\ pc[p] = "c_all"
  /\ loc' = [loc EXCEPT ![p].keys = redisKeys(cache, "blogs:all:")]
  /\ pc' = [pc EXCEPT ![p] = "c_user"]
  /\ UNCHANGED <<db, cache, hist>>

\* const userBlogsKeys = await redis.keys(`blogs:user:${userId}*`)
CreateIntoDb_UserKeys(p) ==
  /\ pc[p] = "c_user"
  /\ loc' = [loc EXCEPT ![p].keys = @ \cup redisKeys(cache, "blogs:user:" \o loc[p].user)]
  /\ pc' = [pc EXCEPT ![p] = "c_del"]
  /\ UNCHANGED <<db, cache, hist>>

\* await safeRedisDel(...listKeys, ...userBlogsKeys); return blog
CreateIntoDb_Del(p) ==
  /\ pc[p] = "c_del"
  /\ cache' = redisDel(cache, loc[p].keys)
  /\ pc' = [pc EXCEPT ![p] = "done"]
  /\ loc' = [loc EXCEPT ![p] = Cleanup([loc[p] EXCEPT !.result = "ok", !.ret = "done"])]
  /\ UNCHANGED <<db, hist>>

CreateSteps(p) ==
  \/ CreateIntoDb_Find(p)
  \/ CreateIntoDb_Db(p)
  \/ CreateIntoDb_Set(p)
  \/ CreateIntoDb_SetSlug(p)
  \/ CreateIntoDb_ListKeys(p)
  \/ CreateIntoDb_UserKeys(p)
  \/ CreateIntoDb_Del(p)

\* ------------------------------------------------- Fast Cache unavailable
\* The same awaited Redis calls when the call fails (the connection is down):
\* safeRedisGet answers null, safeRedisSet and safeRedisDel log and return,
\* redis.keys(...).catch gives [], redis.incr(...).catch gives undefined.
\* The cache is left as it was.

\* const cached = await safeRedisGet(cacheKey)  -- null
GetBlog_Cache_Down(p) ==
  /\ pc[p] = "g_get"
  /\ pc' = [pc EXCEPT ![p] = "g_db"]
  /\ UNCHANGED <<db, cache, loc, hist>>

\* await safeRedisSet(cacheKey, ...)  -- swallowed; incrementViews(blog.id)
GetBlog_Set_Down(p) ==
  /\ pc[p] = "g_set"
  /\ pc' = [pc EXCEPT ![p] = "iv_incr"]
  /\ loc' = [loc EXCEPT ![p].ret = "done", ![p].result = "ok", ![p].out = loc[p].blog]
  /\ hist' = [hist EXCEPT !.recorded[loc[p].blog.id] = @ + 1]
  /\ UNCHANGED <<db, cache>>

\* (await safeRedisGet(CacheKeys.views(blog.id))) || '0'  -- null
GetBlog_Merge_Down(p) ==
  /\ pc[p] = "g_merge"
  /\ loc' = [loc EXCEPT ![p] = Cleanup([loc[p] EXCEPT !.ret = "done",
               !.result = "ok", !.out = loc[p].blog])]
  /\ pc' = [pc EXCEPT ![p] = "done"]
  /\ UNCHANGED <<db, cache, hist>>

\* const views = await redis.incr(...)  -- throws inside try: caught at line 932,
\* incrementViews returns
IncrementViews_Incr_Throws(p) ==
  /\ pc[p] = "iv_incr"
  /\ pc' = [pc EXCEPT ![p] = "done"]
  /\ loc' = [loc EXCEPT ![p] = Cleanup([loc[p] EXCEPT !.result = "Error", !.ret = "done"])]
  /\ UNCHANGED <<db, cache, hist>>
IncrementViews_Incr_Down(p) ==
  /\ pc[p] = "iv_incr"
  /\ pc' = [pc EXCEPT ![p] = loc[p].ret]
  /\ loc' = [loc EXCEPT ![p] = Cleanup(loc[p])]
  /\ UNCHANGED <<db, cache, hist>>

\* const listKeys = await redis.keys('blogs:all:*').catch(() => [])
Invalidate_ListKeys_Down(p) ==
  /\ pc[p] = "inv_all"
  /\ loc' = [loc EXCEPT ![p].keys = {}]
  /\ pc' = [pc EXCEPT ![p] = "inv_user"]
  /\ UNCHANGED <<db, cache, hist>>

\* const userBlogsKeys = await redis.keys('blogs:user:*').catch(() => [])
Invalidate_UserKeys_Down(p) ==
  /\ pc[p] = "inv_user"
  /\ pc' = [pc EXCEPT ![p] = "inv_del"]
  /\ UNCHANGED <<db, cache, loc, hist>>

\* await safeRedisDel(...keysToDelete, ...)  -- swallowed
Invalidate_Del_Throws(p) ==
  /\ pc[p] = "inv_del"
  /\ pc' = [pc EXCEPT ![p] = "done"]
  /\ loc' = [loc EXCEPT ![p] = Cleanup([loc[p] EXCEPT !.result = "Error", !.ret = "done"])]
  /\ UNCHANGED <<db, cache, hist>>
Invalidate_Del_Down(p) ==
  /\ pc[p] = "inv_del"
  /\ pc' = [pc EXCEPT ![p] = loc[p].ret]
  /\ loc' = [loc EXCEPT ![p] = Cleanup(loc[p])]
  /\ UNCHANGED <<db, cache, hist>>

InvSteps_Down(p) ==
  \/ Invalidate_ListKeys_Down(p)
  \/ Invalidate_UserKeys_Down(p)
  \/ Invalidate_Del_Down(p)

\* if (await safeRedisGet(userLikeKey))  -- null: no marker is seen
LikeBlog_Check_Down(p) ==
  /\ pc[p] = "l_get"
  /\ pc' = [pc EXCEPT ![p] = "l_set"]
  /\ UNCHANGED <<db, cache, loc, hist>>

\* await safeRedisSet(userLikeKey, ...)  -- swallowed
LikeBlog_SetMarker_Down(p) ==
  /\ pc[p] = "l_set"
  /\ pc' = [pc EXCEPT ![p] = "l_incr"]
  /\ UNCHANGED <<db, cache, loc, hist>>

\* await redis.incr(CacheKeys.likes(blogId)).catch(() => {})
LikeBlog_Incr_Down(p) ==
  /\ pc[p] = "l_incr"
  /\ pc' = [pc EXCEPT ![p] = "l_db"]
  /\ UNCHANGED <<db, cache, loc, hist>>

\* if (!(await safeRedisGet(userLikeKey))) throw  -- null: thrown
UnlikeBlog_Check_Down(p) ==
  /\ pc[p] = "ul_get"
  /\ pc' = [pc EXCEPT ![p] = "done"]
  /\ loc' = [loc EXCEPT ![p].result = "NotLiked"]
  /\ UNCHANGED <<db, cache, hist>>

\* await safeRedisSet(CacheKeys.blog(id), ...)  -- swallowed
UpdateIntoDb_Set_Down(p) ==
  /\ pc[p] = "u_set"
  /\ IF loc[p].out.slug # loc[p].blog.slug
       THEN /\ pc' = [pc EXCEPT ![p] = "u_setslug"]
            /\ UNCHANGED loc
       ELSE /\ pc' = [pc EXCEPT ![p] = "done"]
            /\ loc' = [loc EXCEPT ![p] =
                 Cleanup([loc[p] EXCEPT !.result = "ok", !.ret = "done"])]
  /\ UNCHANGED <<db, cache, hist>>

\* await safeRedisSet(CacheKeys.blogSlug(updatedBlog.slug), ...)  -- swallowed
UpdateIntoDb_SetSlug_Down(p) ==
  /\ pc[p] = "u_setslug"
  /\ pc' = [pc EXCEPT ![p] = "done"]
  /\ loc' = [loc EXCEPT ![p] = Cleanup([loc[p] EXCEPT !.result = "ok", !.ret = "done"])]
  /\ UNCHANGED <<db, cache, hist>>

\* await safeRedisSet(CacheKeys.blog(blog.id), ...)  -- swallowed
CreateIntoDb_Set_Down(p) ==
  /\ pc[p] = "c_set"
  /\ pc' = [pc EXCEPT ![p] = "c_setslug"]
  /\ UNCHANGED <<db, cache, loc, hist>>

\* await safeRedisSet(CacheKeys.blogSlug(blog.slug), ...)  -- swallowed
CreateIntoDb_SetSlug_Down(p) ==
  /\ pc[p] = "c_setslug"
  /\ pc' = [pc EXCEPT ![p] = "c_all"]
  /\ UNCHANGED <<db, cache, loc, hist>>

\* const listKeys = await redis.keys('blogs:all:*').catch(() => [])
CreateIntoDb_ListKeys_Down(p) ==
  /\ pc[p] = "c_all"
  /\ loc' = [loc EXCEPT ![p].keys = {}]
  /\ pc' = [pc EXCEPT ![p] = "c_user"]
  /\ UNCHANGED <<db, cache, hist>>

\* const userBlogsKeys = await redis.keys(...).catch(() => []);
\* safeRedisDel() with no keys returns at line 757 without a Redis call
CreateIntoDb_UserKeys_Down(p) ==
  /\ pc[p] = "c_user"
  /\ pc' = [pc EXCEPT ![p] = "done"]
  /\ loc' = [loc EXCEPT ![p] = Cleanup([loc[p] EXCEPT !.result = "ok", !.ret = "done"])]
  /\ UNCHANGED <<db, cache, hist>>

\* ------------------------------------------- the Durable Store rejects a write
\* prisma.blogs.update / delete throws: the handler has no try/catch around
\* it, so the rejection propagates and the invalidation after it is skipped
DurableWrite_Fails_Invalidates(p) ==
  /\ pc[p] \in {"l_db", "ul_db", "u_db", "d_db", "sd_db"}
  /\ pc' = [pc EXCEPT ![p] = "inv_all"]
  /\ loc' = [loc EXCEPT ![p].invId = loc[p].id, ![p].invSlug = "",
                        ![p].ret = "done", ![p].result = "Error"]
  /\ UNCHANGED <<db, cache, hist>>
DurableWrite_Fails(p) ==
  /\ pc[p] \in {"l_db", "ul_db", "u_db", "d_db", "sd_db"}
  /\ pc' = [pc EXCEPT ![p] = "done"]
  /\ loc' = [loc EXCEPT ![p] =
       Cleanup([loc[p] EXCEPT !.result = "Error", !.ret = "done"])]
  /\ UNCHANGED <<db, cache, hist>>

\* ------------------------------------------------------------ list queries
\* the sequences listing the records of S, each once (findMany rows)
Rows(S) ==
  {s \in [1..Cardinality(S) -> S] : \A i, j \in 1..Cardinality(S) : i # j => s[i] # s[j]}

\* skip / take
Page(s, skip, take) ==
  SubSeq(s, skip + 1, IF skip + take < Len(s) THEN skip + take ELSE Len(s))

\* orderBy: { createdAt: 'desc' }
Newer(a, b) == a.createdAt > b.createdAt
\* orderBy: [{ views: 'desc' }, { likes: 'desc' }]
MoreTrending_ByLikes(a, b) == a.likes > b.likes \/ (a.likes = b.likes /\ a.views > b.views)
MoreTrending(a, b) == a.views > b.views \/ (a.views = b.views /\ a.likes > b.likes)

\* where: { published: true, isDeleted: false }
Listed(d) == {d[i] : i \in {j \in DOMAIN d : d[j].published /\ ~d[j].isDeleted}}
\* where: { userId, isDeleted: false }
OwnedBy(d, userId) == {d[i] : i \in {j \in DOMAIN d : d[j].userId = userId /\ ~d[j].isDeleted}}

\* the rows of S in createdAt order, newest first
NewestFirst(S) ==
  {s \in Rows(S) : \A i, j \in 1..Len(s) : i < j => ~Newer(s[j], s[i])}
\* the rows of S by views, then likes, highest first (ties in any order, as
\* the store returns them)
TrendingFirst(S) ==
  {s \in Rows(S) : \A i, j \in 1..Len(s) : i < j => ~MoreTrending(s[j], s[i])}

\* Math.ceil(total / limit)
TotalPages(total, limit) == (total + limit - 1) \div limit

\* --------------------------------------------------------------- getAllBlog
BeginGetAll(p, page, limit) ==
  /\ pc[p] = "idle"
  /\ pc' = [pc EXCEPT ![p] = "a_get"]
  /\ loc' = [loc EXCEPT ![p] = Begun(p,
       [IdleLoc EXCEPT !.op = "getAllBlog", !.page = page, !.limit = limit,
          !.key = CacheKeysAllBlogs(page, limit)])]
  /\ hist' = [hist EXCEPT !.nCalls = @ + 1]
  /\ UNCHANGED <<db, cache>>

\* const cached = await safeRedisGet(cacheKey); if (cached) return JSON.parse(cached)
GetAllBlog_Cache(p) ==
  /\ pc[p] = "a_get"
  /\ IF redisHas(cache, loc[p].key)
       THEN /\ pc' = [pc EXCEPT ![p] = "done"]
            /\ loc' = [loc EXCEPT ![p].result = "ok", ![p].hit = TRUE,
                         ![p].list = cache[loc[p].key].blogs,
                         ![p].total = cache[loc[p].key].meta.total]
       ELSE /\ pc' = [pc EXCEPT ![p] = "a_db"]
            /\ UNCHANGED loc
  /\ UNCHANGED <<db, cache, hist>>

\* Promise.all([findMany, count]): the two queries reach the store in either order
GetAllBlog_FindMany(p) ==
  /\ pc[p] = "a_db"
  /\ "findMany" \notin loc[p].keys
  /\ \E s \in NewestFirst(Listed(db)) :
       loc' = [loc EXCEPT ![p].list = Page(s, (loc[p].page - 1) * loc[p].limit, loc[p].limit),
                          ![p].keys = @ \cup {"findMany"}]
  /\ pc' = [pc EXCEPT ![p] = IF "count" \in loc[p].keys THEN "a_set" ELSE "a_db"]
  /\ UNCHANGED <<db, cache, hist>>

GetAllBlog_Count(p) ==
  /\ pc[p] = "a_db"
  /\ "count" \notin loc[p].keys
  /\ loc' = [loc EXCEPT ![p].total = Cardinality(Listed(db)),
                        ![p].keys = @ \cup {"count"}]
  /\ pc' = [pc EXCEPT ![p] = IF "findMany" \in loc[p].keys THEN "a_set" ELSE "a_db"]
  /\ UNCHANGED <<db, cache, hist>>

\* await safeRedisSet(cacheKey, CacheTTL.list, JSON.stringify(result)); return result
GetAllBlog_Set(p) ==
  /\ pc[p] = "a_set"
  /\ cache' = redisSetex(cache, loc[p].key,
       [blogs |-> loc[p].list,
        meta |-> [total |-> loc[p].total, page |-> loc[p].page, limit |-> loc[p].limit,
                  totalPages |-> TotalPages(loc[p].total, loc[p].limit)]])
  /\ pc' = [pc EXCEPT ![p] = "done"]
  /\ loc' = [loc EXCEPT ![p].result = "ok", ![p].keys = {}]
  /\ UNCHANGED <<db, hist>>

\* ---------------------------------------------------------------- getMyBlog
BeginGetMy(p, userId) ==
  /\ pc[p] = "idle"
  /\ pc' = [pc EXCEPT ![p] = "m_get"]
  /\ loc' = [loc EXCEPT ![p] = Begun(p,
       [IdleLoc EXCEPT !.op = "getMyBlog", !.user = userId,
          !.key = CacheKeysMyBlogs(userId)])]
  /\ hist' = [hist EXCEPT !.nCalls = @ + 1]
  /\ UNCHANGED <<db, cache>>

GetMyBlog_Cache(p) ==
  /\ pc[p] = "m_get"
  /\ IF redisHas(cache, loc[p].key)
       THEN /\ pc' = [pc EXCEPT ![p] = "done"]
            /\ loc' = [loc EXCEPT ![p].result = "ok", ![p].hit = TRUE,
                                  ![p].list = cache[loc[p].key]]
       ELSE /\ pc' = [pc EXCEPT ![p] = "m_db"]
            /\ UNCHANGED loc
  /\ UNCHANGED <<db, cache, hist>>

GetMyBlog_Db(p) ==
  /\ pc[p] = "m_db"
  /\ \E s \in NewestFirst(OwnedBy(db, loc[p].user)) : loc' = [loc EXCEPT ![p].list = s]
  /\ pc' = [pc EXCEPT ![p] = "m_set"]
  /\ UNCHANGED <<db, cache, hist>>

\* await safeRedisSet(cacheKey, CacheTTL.blog, JSON.stringify(blogs)); return blogs
GetMyBlog_Set(p) ==
  /\ pc[p] = "m_set"
  /\ cache' = redisSetex(cache, loc[p].key, loc[p].list)
  /\ pc' = [pc EXCEPT ![p] = "done"]
  /\ loc' = [loc EXCEPT ![p].result = "ok"]
  /\ UNCHANGED <<db, hist>>

\* --------------------------------------------------------- getTrendingBlogs
BeginTrending(p, limit) ==
  /\ pc[p] = "idle"
  /\ pc' = [pc EXCEPT ![p] = "t_get"]
  /\ loc' = [loc EXCEPT ![p] = Begun(p,
       [IdleLoc EXCEPT !.op = "getTrendingBlogs", !.limit = limit,
          !.key = CacheKeysTrending])]
  /\ hist' = [hist EXCEPT !.nCalls = @ + 1]
  /\ UNCHANGED <<db, cache>>

GetTrendingBlogs_Cache(p) ==
  /\ pc[p] = "t_get"
  /\ IF redisHas(cache, loc[p].key)
       THEN /\ pc' = [pc EXCEPT ![p] = "done"]
            /\ loc' = [loc EXCEPT ![p].result = "ok", ![p].hit = TRUE,
                                  ![p].list = cache[loc[p].key]]
       ELSE /\ pc' = [pc EXCEPT ![p] = "t_db"]
            /\ UNCHANGED loc
  /\ UNCHANGED <<db, cache, hist>>

GetTrendingBlogs_Db(p) ==
  /\ pc[p] = "t_db"
  /\ \E s \in TrendingFirst(Listed(db)) :
       loc' = [loc EXCEPT ![p].list = Page(s, 0, loc[p].limit)]
  /\ pc' = [pc EXCEPT ![p] = "t_set"]
  /\ UNCHANGED <<db, cache, hist>>

\* await safeRedisSet(cacheKey, CacheTTL.trending, JSON.stringify(blogs)); return blogs
GetTrendingBlogs_Set(p) ==
  /\ pc[p] = "t_set"
  /\ cache' = redisSetex(cache, loc[p].key, loc[p].list)
  /\ pc' = [pc EXCEPT ![p] = "done"]
  /\ loc' = [loc EXCEPT ![p].result = "ok"]
  /\ UNCHANGED <<db, hist>>

ListSteps(p) ==
  \/ GetAllBlog_Cache(p)
  \/ GetAllBlog_FindMany(p)
  \/ GetAllBlog_Count(p)
  \/ GetAllBlog_Set(p)
  \/ GetMyBlog_Cache(p)
  \/ GetMyBlog_Db(p)
  \/ GetMyBlog_Set(p)
  \/ GetTrendingBlogs_Cache(p)
  \/ GetTrendingBlogs_Db(p)
  \/ GetTrendingBlogs_Set(p)

\* the response is sent; the slot is free for the next request
Finish(p) ==
  /\ pc[p] = "done"
  /\ pc' = [pc EXCEPT ![p] = "idle"]
  /\ loc' = [loc EXCEPT ![p] = IdleLoc]
  /\ hist' = IF loc[p].op = "getBlog" /\ loc[p].result = "ok" /\ ~loc[p].hit
               THEN [hist EXCEPT !.populated = @ \cup {loc[p].key}]
               ELSE hist
  /\ UNCHANGED <<db, cache>>

GetSteps(p) ==
  \/ GetBlog_Cache(p)
  \/ GetBlog_Db(p)
  \/ GetBlog_Set(p)
  \/ GetBlog_Merge(p)

IncSteps(p) ==
  \/ IncrementViews_Incr(p)
  \/ IncrementViews_Flush(p)
  \/ IncrementViews_Del(p)

\* ------------------------------------------------------------- searchByTags
\* the tag lists a request can carry: req.query.tags split at the commas
TagLists == UNION {[1..n -> Tags] : n \in 0..MaxTags}

\* the tags in the order of their UTF-16 code units, as Array.prototype.sort
\* compares them
TagOrder == <<"a", "b">>
TagRank(t) == CHOOSE i \in 1..Len(TagOrder) : TagOrder[i] = t

RECURSIVE InsertTag(_, _)
InsertTag(t, s) ==
  IF s = <<>> THEN <<t>>
  ELSE IF TagRank(t) <= TagRank(Head(s)) THEN <<t>> \o s
  ELSE <<Head(s)>> \o InsertTag(t, Tail(s))

\* tags.sort(): every element is kept, repeated ones too
SortTags_Unsorted(s) == s
RECURSIVE SortTags(_)
SortTags(s) == IF s = <<>> THEN <<>> ELSE InsertTag(Head(s), SortTags(Tail(s)))

\* .join(',')
RECURSIVE JoinTags(_)
JoinTags(s) ==
  IF s = <<>> THEN ""
  ELSE IF Len(s) = 1 THEN s[1]
  ELSE s[1] \o "," \o JoinTags(Tail(s))

\* const cacheKey = `blogs:search:tags:${tags.sort().join(',')}`
SearchCacheKey(tags) == "blogs:search:tags:" \o JoinTags(SortTags(tags))

\* the elements of a list
Range(s) == {s[i] : i \in 1..Len(s)}

\* where: { tags: { hasSome: tags }, published: true, isDeleted: false }
HasSome(d, tags) ==
  {b \in Listed(d) : b.tags \cap Range(tags) # {}}

BeginSearch(p, tags) ==
  /\ pc[p] = "idle"
  /\ pc' = [pc EXCEPT ![p] = "s_get"]
  /\ loc' = [loc EXCEPT ![p] = Begun(p,
       [IdleLoc EXCEPT !.op = "searchByTags", !.tags = tags,
          !.key = SearchCacheKey(tags)])]
  /\ hist' = [hist EXCEPT !.nCalls = @ + 1]
  /\ UNCHANGED <<db, cache>>

\* const cached = await safeRedisGet(cacheKey); if (cached) return JSON.parse(cached)
SearchByTags_Cache(p) ==
  /\ pc[p] = "s_get"
  /\ IF redisHas(cache, loc[p].key)
       THEN /\ pc' = [pc EXCEPT ![p] = "done"]
            /\ loc' = [loc EXCEPT ![p].result = "ok", ![p].hit = TRUE,
                                  ![p].list = cache[loc[p].key]]
       ELSE /\ pc' = [pc EXCEPT ![p] = "s_db"]
            /\ UNCHANGED loc
  /\ UNCHANGED <<db, cache, hist>>

\* const blogs = await prisma.blogs.findMany({ where, orderBy: { createdAt: 'desc' } })
SearchByTags_Db(p) ==
  /\ pc[p] = "s_db"
  /\ \E s \in NewestFirst(HasSome(db, loc[p].tags)) : loc' = [loc EXCEPT ![p].list = s]
  /\ pc' = [pc EXCEPT ![p] = "s_set"]
  /\ UNCHANGED <<db, cache, hist>>

\* await safeRedisSet(cacheKey, CacheTTL.list, JSON.stringify(blogs)); return blogs
SearchByTags_Set(p) ==
  /\ pc[p] = "s_set"
  /\ cache' = redisSetex(cache, loc[p].key, loc[p].list)
  /\ pc' = [pc EXCEPT ![p] = "done"]
  /\ loc' = [loc EXCEPT ![p].result = "ok"]
  /\ UNCHANGED <<db, hist>>

SearchSteps(p) ==
  \/ SearchByTags_Cache(p)
  \/ SearchByTags_Db(p)
  \/ SearchByTags_Set(p)

\* ------------------------------------- a Fast Cache call that never responds
\* the steps at which a request awaits the reply to a Redis command
RedisCallSteps ==
  {"g_get", "g_set", "g_merge", "iv_incr", "iv_del",
   "l_get", "l_set", "l_incr", "ul_get", "ul_del", "ul_decr",
   "inv_all", "inv_user", "inv_del"}

\* The reply never comes. The client is built with new Redis(url): no
\* commandTimeout is set, and neither the safeRedis* wrappers nor the handlers
\* race the call against a timer, so the awaited promise stays pending and
\* the request has no further step.
Redis_NoReply(p) ==
  /\ pc[p] \in RedisCallSteps
  /\ pc' = [pc EXCEPT ![p] = "hung"]
  /\ UNCHANGED <<db, cache, loc, hist>>

\* the steps of the handlers of getBlog, likeBlog and unlikeBlog
HandlerStep(p) ==
  \/ GetSteps(p)
  \/ IncrementViews_Incr(p)
  \/ IncrementViews_Del(p)
  \/ LikeSteps(p)
  \/ UnlikeSteps(p)
  \/ InvSteps(p)

\* ------------------------------------------ specification: recordView
\* Concurrent incrementViews calls for the one post.
RecordViewNext ==
  \/ \E p \in Procs : hist.nCalls < MaxRecordViews /\ BeginRecordView(p, "p1")
  \/ \E p \in Procs : IncSteps(p)
  \/ \E p \in Procs : Finish(p)

RecordViewSpec == Init /\ [][RecordViewNext]_vars

\* ------------------------------------------- specification: sequential reads
\* getBlog requests for the one post, by id and by slug, one after the other.
ViewSeqNext ==
  \/ hist.nCalls < MaxSeqViewCalls /\ AllIdle /\ BeginGet(Slot1, "p1", "")
  \/ hist.nCalls < MaxSeqViewCalls /\ AllIdle /\ BeginGet(Slot1, "", "s1")
  \/ \E p \in Procs : GetSteps(p)
  \/ \E p \in Procs : IncSteps(p)
  \/ \E p \in Procs : Finish(p)

ViewSeqSpec == Init /\ [][ViewSeqNext]_vars

\* ------------------------------------------------ specification: likes
\* Every request slot issues at most one likeBlog for the one post.
LikeRaceNext ==
  \/ \E p \in Procs, u \in Users : BeginLike(p, "p1", u)
  \/ \E p \in Procs : LikeSteps(p)
  \/ \E p \in Procs : InvSteps(p)

LikeRaceSpec == Init /\ [][LikeRaceNext]_vars

\* --------------------------------- specification: requests one at a time
\* Reads, list queries and mutations of the one post, each request answered
\* before the next begins.
SeqMayBegin == hist.nCalls < MaxSeqCalls /\ AllIdle

MutSeqNext ==
  \/ SeqMayBegin /\ BeginGet(Slot1, "p1", "")
  \/ SeqMayBegin /\ \E sl \in Slugs : BeginGet(Slot1, "", sl)
  \/ SeqMayBegin /\ BeginLike(Slot1, "p1", "u1")
  \/ SeqMayBegin /\ BeginUnlike(Slot1, "p1", "u1")
  \/ SeqMayBegin /\ \E patch \in Patches : BeginUpdate(Slot1, "p1", patch)
  \/ SeqMayBegin /\ BeginDelete(Slot1, "p1")
  \/ SeqMayBegin /\ BeginSoftDelete(Slot1, "p1")
  \/ SeqMayBegin /\ BeginGetAll(Slot1, 1, 10)
  \/ SeqMayBegin /\ BeginGetMy(Slot1, "u1")
  \/ SeqMayBegin /\ BeginTrending(Slot1, 10)
  \/ \E p \in Procs : GetSteps(p)
  \* fewer than BatchSize views are recorded here: no flush becomes due
  \/ \E p \in Procs : IncrementViews_Incr(p)
  \/ \E p \in Procs : IncrementViews_Del(p)
  \/ \E p \in Procs : LikeSteps(p)
  \/ \E p \in Procs : UnlikeSteps(p)
  \/ \E p \in Procs : UpdateSteps(p)
  \/ \E p \in Procs : DeleteSteps(p)
  \/ \E p \in Procs : SoftDeleteSteps(p)
  \/ \E p \in Procs : ListSteps(p)
  \/ \E p \in Procs : InvSteps(p)
  \/ \E p \in Procs : Finish(p)

MutSeqSpec == InitCreated /\ [][MutSeqNext]_vars

\* ------------------------------- specification: soft delete against reads
\* softDeleteIntoDb and getBlog requests for the one post, interleaved.
RaceMayBegin == hist.nCalls < MaxRaceCalls

DelRaceNext ==
  \/ \E p \in Procs : RaceMayBegin /\ BeginSoftDelete(p, "p1")
  \/ \E p \in Procs : RaceMayBegin /\ BeginGet(p, "p1", "")
  \/ \E p \in Procs : RaceMayBegin /\ BeginGet(p, "", "s1")
  \/ \E p \in Procs : GetSteps(p)
  \/ \E p \in Procs : IncrementViews_Incr(p)
  \/ \E p \in Procs : IncrementViews_Del(p)
  \/ \E p \in Procs : SoftDeleteSteps(p)
  \/ \E p \in Procs : InvSteps(p)
  \/ \E p \in Procs : Finish(p)

DelRaceSpec == Init /\ [][DelRaceNext]_vars

\* ---------------------- specification: reads against updates and likes
\* updateIntoDb, likeBlog, unlikeBlog and getBlog requests for the one post,
\* interleaved.
MixRaceNext ==
  \/ \E p \in Procs : RaceMayBegin /\ BeginGet(p, "p1", "")
  \/ \E p \in Procs : RaceMayBegin /\ \E sl \in Slugs : BeginGet(p, "", sl)
  \/ \E p \in Procs : RaceMayBegin /\ BeginLike(p, "p1", "u1")
  \/ \E p \in Procs : RaceMayBegin /\ BeginUnlike(p, "p1", "u1")
  \/ \E p \in Procs : RaceMayBegin /\ \E patch \in OneFieldPatches : BeginUpdate(p, "p1", patch)
  \/ \E p \in Procs : GetSteps(p)
  \/ \E p \in Procs : IncrementViews_Incr(p)
  \/ \E p \in Procs : IncrementViews_Del(p)
  \/ \E p \in Procs : LikeSteps(p)
  \/ \E p \in Procs : UnlikeSteps(p)
  \/ \E p \in Procs : UpdateSteps(p)
  \/ \E p \in Procs : InvSteps(p)
  \/ \E p \in Procs : Finish(p)

MixRaceSpec == Init /\ [][MixRaceNext]_vars

\* --------------------------------- specification: the cache down throughout
\* Requests one at a time while every Redis call fails.
CacheDownNext ==
  \/ SeqMayBegin /\ BeginGet(Slot1, "p1", "")
  \/ SeqMayBegin /\ \E sl \in Slugs : BeginGet(Slot1, "", sl)
  \/ SeqMayBegin /\ NextId \in AllIds
                 /\ \E sl \in Slugs : BeginCreate(Slot1, sl, "t1", TRUE, "u1")
  \/ SeqMayBegin /\ \E patch \in OneFieldPatches : BeginUpdate(Slot1, "p1", patch)
  \/ SeqMayBegin /\ BeginDelete(Slot1, "p1")
  \/ SeqMayBegin /\ BeginSoftDelete(Slot1, "p1")
  \/ SeqMayBegin /\ BeginLike(Slot1, "p1", "u1")
  \/ SeqMayBegin /\ BeginUnlike(Slot1, "p1", "u1")
  \/ \E p \in Procs : GetBlog_Cache_Down(p)
  \/ \E p \in Procs : GetBlog_Db(p)
  \/ \E p \in Procs : GetBlog_Set_Down(p)
  \/ \E p \in Procs : IncrementViews_Incr_Down(p)
  \/ \E p \in Procs : CreateIntoDb_Find(p)
  \/ \E p \in Procs : CreateIntoDb_Db(p)
  \/ \E p \in Procs : CreateIntoDb_Set_Down(p)
  \/ \E p \in Procs : CreateIntoDb_SetSlug_Down(p)
  \/ \E p \in Procs : CreateIntoDb_ListKeys_Down(p)
  \/ \E p \in Procs : CreateIntoDb_UserKeys_Down(p)
  \/ \E p \in Procs : UpdateIntoDb_Find(p)
  \/ \E p \in Procs : UpdateIntoDb_SlugCheck(p)
  \/ \E p \in Procs : UpdateIntoDb_Db(p)
  \/ \E p \in Procs : UpdateIntoDb_Set_Down(p)
  \/ \E p \in Procs : UpdateIntoDb_SetSlug_Down(p)
  \/ \E p \in Procs : DeleteSteps(p)
  \/ \E p \in Procs : SoftDeleteSteps(p)
  \/ \E p \in Procs : LikeBlog_Check_Down(p)
  \/ \E p \in Procs : LikeBlog_SetMarker_Down(p)
  \/ \E p \in Procs : LikeBlog_Incr_Down(p)
  \/ \E p \in Procs : LikeBlog_Db(p)
  \/ \E p \in Procs : UnlikeBlog_Check_Down(p)
  \/ \E p \in Procs : InvSteps_Down(p)
  \/ \E p \in Procs : Finish(p)

CacheDownSpec == InitCreated /\ [][CacheDownNext]_vars

\* ------------------- specification: one request sequence, run twice
\* A sequence of requests is served one at a time with a healthy cache
\* (run 1) and then again, from the same initial store and cache, with every
\* Redis call failing (run 2).
Healthy == hist.run = 1
Down == hist.run = 2

\* the request of a slot, without what it was answered
Request(l) == [op |-> l.op, id |-> IF l.op = "create" THEN "" ELSE l.id,
               slug |-> l.slug, user |-> l.user, patch |-> l.patch]

\* a request may be issued: any in run 1, the next of the script in run 2
MayIssue(r) ==
  /\ AllIdle
  /\ \/ Healthy /\ hist.nCalls < MaxSeqCalls
     \/ /\ Down /\ hist.nCalls < Len(hist.script)
        /\ hist.script[hist.nCalls + 1].request = r

\* run 1: the response is sent and noted in the script
FinishNoted(p) ==
  /\ Healthy
  /\ pc[p] = "done"
  /\ pc' = [pc EXCEPT ![p] = "idle"]
  /\ loc' = [loc EXCEPT ![p] = IdleLoc]
  /\ hist' = [hist EXCEPT !.script =
       Append(@, [request |-> Request(loc[p]), result |-> loc[p].result])]
  /\ UNCHANGED <<db, cache>>

\* the store and the cache are put back as they were; the cache goes down
RunAgain ==
  /\ Healthy /\ AllIdle /\ hist.script # <<>>
  /\ db' = [i \in {"p1"} |-> NewBlog("p1", "s1", "t1", TRUE, "u1", 1)]
  /\ cache' = [k \in {CacheKeysBlog("p1"), CacheKeysBlogSlug("s1")} |->
                 NewBlog("p1", "s1", "t1", TRUE, "u1", 1)]
  /\ hist' = [hist EXCEPT !.run = 2, !.nCalls = 0, !.created = 1,
                          !.recorded = [i \in AllIds |-> 0], !.populated = {}]
  /\ UNCHANGED <<pc, loc>>

TwoRunsNext ==
  \/ MayIssue([op |-> "getBlog", id |-> "p1", slug |-> "", user |-> "", patch |-> NoPatch])
       /\ BeginGet(Slot1, "p1", "")
  \/ MayIssue([op |-> "getBlog", id |-> "", slug |-> "s1", user |-> "", patch |-> NoPatch])
       /\ BeginGet(Slot1, "", "s1")
  \/ \E sl \in Slugs :
       /\ MayIssue([op |-> "create", id |-> "", slug |-> sl, user |-> "u1", patch |-> NoPatch])
       /\ NextId \in AllIds
       /\ BeginCreate(Slot1, sl, "t1", TRUE, "u1")
  \/ \E patch \in OneFieldPatches :
       /\ MayIssue([op |-> "update", id |-> "p1", slug |-> "", user |-> "", patch |-> patch])
       /\ BeginUpdate(Slot1, "p1", patch)
  \/ MayIssue([op |-> "delete", id |-> "p1", slug |-> "", user |-> "", patch |-> NoPatch])
       /\ BeginDelete(Slot1, "p1")
  \/ MayIssue([op |-> "like", id |-> "p1", slug |-> "", user |-> "u1", patch |-> NoPatch])
       /\ BeginLike(Slot1, "p1", "u1")
  \/ MayIssue([op |-> "unlike", id |-> "p1", slug |-> "", user |-> "u1", patch |-> NoPatch])
       /\ BeginUnlike(Slot1, "p1", "u1")
  \* steps at the Durable Store, in both runs
  \/ \E p \in Procs : GetBlog_Db(p)
  \/ \E p \in Procs : CreateIntoDb_Find(p)
  \/ \E p \in Procs : CreateIntoDb_Db(p)
  \/ \E p \in Procs : UpdateIntoDb_Find(p)
  \/ \E p \in Procs : UpdateIntoDb_SlugCheck(p)
  \/ \E p \in Procs : UpdateIntoDb_Db(p)
  \/ \E p \in Procs : DeleteSteps(p)
  \/ \E p \in Procs : LikeBlog_Db(p)
  \/ \E p \in Procs : UnlikeBlog_Db(p)
  \* steps at the cache, run 1
  \/ \E p \in Procs : Healthy /\ GetBlog_Cache(p)
  \/ \E p \in Procs : Healthy /\ GetBlog_Set(p)
  \/ \E p \in Procs : Healthy /\ GetBlog_Merge(p)
  \/ \E p \in Procs : Healthy /\ IncrementViews_Incr(p)
  \/ \E p \in Procs : Healthy /\ IncrementViews_Del(p)
  \/ \E p \in Procs : Healthy /\ CreateIntoDb_Set(p)
  \/ \E p \in Procs : Healthy /\ CreateIntoDb_SetSlug(p)
  \/ \E p \in Procs : Healthy /\ CreateIntoDb_ListKeys(p)
  \/ \E p \in Procs : Healthy /\ CreateIntoDb_UserKeys(p)
  \/ \E p \in Procs : Healthy /\ CreateIntoDb_Del(p)
  \/ \E p \in Procs : Healthy /\ UpdateIntoDb_Set(p)
  \/ \E p \in Procs : Healthy /\ UpdateIntoDb_SetSlug(p)
  \/ \E p \in Procs : Healthy /\ LikeBlog_Check(p)
  \/ \E p \in Procs : Healthy /\ LikeBlog_SetMarker(p)
  \/ \E p \in Procs : Healthy /\ LikeBlog_Incr(p)
  \/ \E p \in Procs : Healthy /\ UnlikeBlog_Check(p)
  \/ \E p \in Procs : Healthy /\ UnlikeBlog_DelMarker(p)
  \/ \E p \in Procs : Healthy /\ UnlikeBlog_Decr(p)
  \/ \E p \in Procs : Healthy /\ InvSteps(p)
  \/ \E p \in Procs : FinishNoted(p)
  \/ RunAgain
  \* steps at the cache, run 2
  \/ \E p \in Procs : Down /\ GetBlog_Cache_Down(p)
  \/ \E p \in Procs : Down /\ GetBlog_Set_Down(p)
  \/ \E p \in Procs : Down /\ IncrementViews_Incr_Down(p)
  \/ \E p \in Procs : Down /\ CreateIntoDb_Set_Down(p)
  \/ \E p \in Procs : Down /\ CreateIntoDb_SetSlug_Down(p)
  \/ \E p \in Procs : Down /\ CreateIntoDb_ListKeys_Down(p)
  \/ \E p \in Procs : Down /\ CreateIntoDb_UserKeys_Down(p)
  \/ \E p \in Procs : Down /\ UpdateIntoDb_Set_Down(p)
  \/ \E p \in Procs : Down /\ UpdateIntoDb_SetSlug_Down(p)
  \/ \E p \in Procs : Down /\ LikeBlog_Check_Down(p)
  \/ \E p \in Procs : Down /\ LikeBlog_SetMarker_Down(p)
  \/ \E p \in Procs : Down /\ LikeBlog_Incr_Down(p)
  \/ \E p \in Procs : Down /\ UnlikeBlog_Check_Down(p)
  \/ \E p \in Procs : Down /\ InvSteps_Down(p)
  \/ \E p \in Procs : Down /\ Finish(p)

TwoRunsSpec == InitCreated /\ [][TwoRunsNext]_vars

\* --------------------------------- specification: likes against unlikes
\* likeBlog and unlikeBlog requests for the one post, interleaved.
LikeUnlikeNext ==
  \/ \E p \in Procs, u \in Users : RaceMayBegin /\ BeginLike(p, "p1", u)
  \/ \E p \in Procs, u \in Users : RaceMayBegin /\ BeginUnlike(p, "p1", u)
  \/ \E p \in Procs : LikeSteps(p)
  \/ \E p \in Procs : UnlikeSteps(p)
  \/ \E p \in Procs : InvSteps(p)
  \/ \E p \in Procs : Finish(p)

LikeUnlikeSpec == Init /\ [][LikeUnlikeNext]_vars

\* ------------------------- specification: view recording that may fail
\* getBlog requests for the one post, one after the other; each redis.incr and
\* each durable flush of incrementViews, and the read of the view counter on
\* the hit path, either succeeds or fails.
ViewFailNext ==
  \/ hist.nCalls < MaxSeqViewCalls /\ AllIdle /\ BeginGet(Slot1, "p1", "")
  \/ hist.nCalls < MaxSeqViewCalls /\ AllIdle /\ BeginGet(Slot1, "", "s1")
  \/ \E p \in Procs : GetSteps(p)
  \/ \E p \in Procs : IncSteps(p)
  \/ \E p \in Procs : IncrementViews_Incr_Down(p)
  \/ \E p \in Procs : IncrementViews_Flush_Fail(p)
  \/ \E p \in Procs : GetBlog_Merge_Down(p)
  \/ \E p \in Procs : Finish(p)

ViewFailSpec == Init /\ [][ViewFailNext]_vars

\* ------------------------------------------- specification: slugs in use
\* createIntoDb and updateIntoDb requests that give a slug, interleaved; every
\* request slot issues at most one.
SlugRaceNext ==
  \/ \E p \in Procs, sl \in Slugs :
       hist.nCalls < MaxSlugCalls /\ NextId \in AllIds /\ BeginCreate(p, sl, "t1", TRUE, "u1")
  \/ \E p \in Procs, id \in AllIds, sl \in Slugs :
       hist.nCalls < MaxSlugCalls /\ BeginUpdate(p, id, [slug |-> sl, title |-> ""])
  \/ \E p \in Procs : CreateSteps(p)
  \/ \E p \in Procs : UpdateSteps(p)
  \/ \E p \in Procs : InvSteps(p)

SlugRaceSpec == Init /\ [][SlugRaceNext]_vars

\* ----------------- specification: createIntoDb among list queries, in turn

CreateSeqNext ==
  \/ SeqMayBegin /\ BeginGetAll(Slot1, 1, 10)
  \/ SeqMayBegin /\ \E u \in Users : BeginGetMy(Slot1, u)
  \/ SeqMayBegin /\ BeginTrending(Slot1, 10)
  \/ SeqMayBegin /\ NextId \in AllIds
       /\ \E u \in Users, sl \in Slugs : BeginCreate(Slot1, sl, "t1", TRUE, u)
  \/ \E p \in Procs : ListSteps(p)
  \/ \E p \in Procs : CreateSteps(p)
  \/ \E p \in Procs : Finish(p)

CreateSeqSpec == Init /\ [][CreateSeqNext]_vars

\* ---------------------------- specification: tag searches, one after another

\* Two published posts, tagged when they were created; nothing is cached.
InitTagged ==
  /\ db = [i \in {"p1", "p2"} |->
             IF i = "p1" THEN Tagged(NewBlog("p1", "s1", "t1", TRUE, "u1", 1), {"a", "b"})
                         ELSE Tagged(NewBlog("p2", "s3", "t1", TRUE, "u2", 2), {"b"})]
  /\ cache = [k \in {} |-> 0]
  /\ InitProcs
  /\ hist = [nCalls |-> 0, recorded |-> [i \in AllIds |-> 0], flushLog |-> <<>>,
             populated |-> {}, sdPre |-> {}, created |-> 2,
             run |-> 1, script |-> <<>>]

\* the n-th request is served in slot n, when the ones before it are answered
SearchPairNext ==
  \/ \E p \in Procs, tags \in TagLists :
       /\ p = hist.nCalls + 1
       /\ \A q \in Procs : pc[q] \in {"idle", "done"}
       /\ BeginSearch(p, tags)
  \/ \E p \in Procs : SearchSteps(p)

SearchPairSpec == InitTagged /\ [][SearchPairNext]_vars

\* ------------------- specification: tag searches among reads and mutations

SearchSeqNext ==
  \/ SeqMayBegin /\ \E tags \in {<<"a">>, <<"b">>} : BeginSearch(Slot1, tags)
  \/ SeqMayBegin /\ BeginGet(Slot1, "p1", "")
  \/ SeqMayBegin /\ BeginGetMy(Slot1, "u1")
  \/ SeqMayBegin /\ BeginTrending(Slot1, 10)
  \/ SeqMayBegin /\ \E patch \in OneFieldPatches : BeginUpdate(Slot1, "p1", patch)
  \/ SeqMayBegin /\ BeginDelete(Slot1, "p1")
  \/ SeqMayBegin /\ BeginSoftDelete(Slot1, "p1")
  \/ \E p \in Procs : SearchSteps(p)
  \/ \E p \in Procs : GetSteps(p)
  \/ \E p \in Procs : IncrementViews_Incr(p)
  \/ \E p \in Procs : IncrementViews_Del(p)
  \/ \E p \in Procs : GetMyBlog_Cache(p) \/ GetMyBlog_Db(p) \/ GetMyBlog_Set(p)
  \/ \E p \in Procs :
       GetTrendingBlogs_Cache(p) \/ GetTrendingBlogs_Db(p) \/ GetTrendingBlogs_Set(p)
  \/ \E p \in Procs : UpdateSteps(p)
  \/ \E p \in Procs : DeleteSteps(p)
  \/ \E p \in Procs : SoftDeleteSteps(p)
  \/ \E p \in Procs : InvSteps(p)
  \/ \E p \in Procs : Finish(p)

SearchSeqSpec == InitTagged /\ [][SearchSeqNext]_vars

\* ------------- specification: mutations whose durable write may be rejected

MutFailNext ==
  \/ SeqMayBegin /\ BeginGet(Slot1, "p1", "")
  \/ SeqMayBegin /\ BeginGetMy(Slot1, "u1")
  \/ SeqMayBegin /\ BeginTrending(Slot1, 10)
  \/ SeqMayBegin /\ BeginLike(Slot1, "p1", "u1")
  \/ SeqMayBegin /\ BeginUnlike(Slot1, "p1", "u1")
  \/ SeqMayBegin /\ \E patch \in OneFieldPatches : BeginUpdate(Slot1, "p1", patch)
  \/ SeqMayBegin /\ BeginDelete(Slot1, "p1")
  \/ SeqMayBegin /\ BeginSoftDelete(Slot1, "p1")
  \/ \E p \in Procs : GetSteps(p)
  \/ \E p \in Procs : IncrementViews_Incr(p)
  \/ \E p \in Procs : IncrementViews_Del(p)
  \/ \E p \in Procs : GetMyBlog_Cache(p) \/ GetMyBlog_Db(p) \/ GetMyBlog_Set(p)
  \/ \E p \in Procs :
       GetTrendingBlogs_Cache(p) \/ GetTrendingBlogs_Db(p) \/ GetTrendingBlogs_Set(p)
  \/ \E p \in Procs : LikeSteps(p)
  \/ \E p \in Procs : UnlikeSteps(p)
  \/ \E p \in Procs : UpdateSteps(p)
  \/ \E p \in Procs : DeleteSteps(p)
  \/ \E p \in Procs : SoftDeleteSteps(p)
  \/ \E p \in Procs : DurableWrite_Fails(p)
  \/ \E p \in Procs : InvSteps(p)
  \/ \E p \in Procs : Finish(p)

MutFailSpec == InitCreated /\ [][MutFailNext]_vars

\* ------------------------------- specification: trending over varied posts

\* what two posts can have come to after some views, likes and soft deletes:
\* a persisted view count of 0 or one batch, 0 or 1 likes, published or not,
\* soft-deleted or not
PostStates(id, slug, userId, createdAt) ==
  {[NewBlog(id, slug, "t1", pub, userId, createdAt)
      EXCEPT !.views = v, !.likes = l, !.isDeleted = del] :
     v \in {0, BatchSize}, l \in {0, 1}, pub \in BOOLEAN, del \in BOOLEAN}

\* the view counters in the cache: the persisted views of each post, and for
\* the second post possibly 5 more that are not flushed yet
CountersFor(d, unflushed) ==
  LET n == [i \in DOMAIN d |-> d[i].views + (IF i = "p2" THEN unflushed ELSE 0)]
  IN [k \in {CacheKeysViews(i) : i \in {j \in DOMAIN d : n[j] > 0}} |->
        n[CHOOSE i \in DOMAIN d : CacheKeysViews(i) = k]]

InitTrending ==
  /\ \E b1 \in PostStates("p1", "s1", "u1", 1), b2 \in PostStates("p2", "s2", "u2", 2) :
       /\ db = [i \in {"p1", "p2"} |-> IF i = "p1" THEN b1 ELSE b2]
       /\ \E unflushed \in {0, 5} : cache = CountersFor(db, unflushed)
  /\ InitProcs
  /\ hist = [nCalls |-> 0, recorded |-> [i \in AllIds |-> 0], flushLog |-> <<>>,
             populated |-> {}, sdPre |-> {}, created |-> 2,
             run |-> 1, script |-> <<>>]

TrendingNext ==
  \/ SeqMayBegin /\ \E limit \in 1..MaxLimit : BeginTrending(Slot1, limit)
  \/ \E p \in Procs : GetTrendingBlogs_Cache(p)
  \/ \E p \in Procs : GetTrendingBlogs_Db(p)
  \/ \E p \in Procs : GetTrendingBlogs_Set(p)
  \/ \E p \in Procs : Finish(p)

TrendingSpec == InitTrending /\ [][TrendingNext]_vars

\* ------------------ specification: Redis calls that may never be answered

\* the n-th request is served in slot n
HangNext ==
  \/ \E p \in Procs :
       /\ p = hist.nCalls + 1 /\ hist.nCalls < MaxHangCalls
       /\ \/ BeginGet(p, "p1", "")
          \/ BeginLike(p, "p1", "u1")
          \/ BeginUnlike(p, "p1", "u1")
  \/ \E p \in Procs : HandlerStep(p)
  \/ \E p \in Procs : Redis_NoReply(p)

\* The event loop runs the continuation of every promise that has settled: a
\* request whose awaited call has been answered takes its next step.
HangFairness == \A p \in Procs : WF_vars(HandlerStep(p))

HangSpec == InitCreated /\ [][HangNext]_vars /\ HangFairness

\* ------------ specification: recordView with flushes that may be rejected

RecordViewFailNext ==
  \/ \E p \in Procs : hist.nCalls < MaxRecordViews /\ BeginRecordView(p, "p1")
  \/ \E p \in Procs : IncSteps(p)
  \/ \E p \in Procs : IncrementViews_Flush_Fail(p)
  \/ \E p \in Procs : Finish(p)

RecordViewFailSpec == Init /\ [][RecordViewFailNext]_vars

\* ---------------- specification: reads by id with any string for the id

\* GET /:id passes req.params.id on as it is: any path segment is an id
RequestIds == {"p1", "slug:s1"}

KeyClashNext ==
  \/ SeqMayBegin /\ \E id \in RequestIds : BeginGet(Slot1, id, "")
  \/ SeqMayBegin /\ BeginGet(Slot1, "", "s1")
  \/ \E p \in Procs : GetSteps(p)
  \/ \E p \in Procs : IncrementViews_Incr(p)
  \/ \E p \in Procs : IncrementViews_Del(p)
  \/ \E p \in Procs : Finish(p)

KeyClashSpec == Init /\ [][KeyClashNext]_vars

\* ================================================================ claims
Persisted(id) == db[id].views
\* recorded views that no durable increment has reached yet
Unflushed(id) == hist.recorded[id] - Persisted(id)
FlushPending == {p \in Procs : pc[p] = "iv_flush"}

\* the finished likeBlog calls of user u for post id
LikeCalls(id, u) ==
  {p \in Procs : pc[p] = "done" /\ loc[p].op = "like" /\ loc[p].id = id /\ loc[p].user = u}

\* C1 (LikeRaceSpec): two likeBlog calls for the same (user, post) pair, the
\* only calls made, under every interleaving of their steps: exactly one
\* succeeds, the other fails with AlreadyLiked, and the durable like count of
\* the post has risen by exactly 1.
C1_ConcurrentLikeOnce ==
  \A u \in Users :
    (Cardinality(LikeCalls("p1", u)) = 2 /\ \A p \in Procs \ LikeCalls("p1", u) : pc[p] = "idle")
      => /\ Cardinality({p \in LikeCalls("p1", u) : loc[p].result = "ok"}) = 1
         /\ Cardinality({p \in LikeCalls("p1", u) : loc[p].result = "AlreadyLiked"}) = 1
         /\ db["p1"].likes = 1

\* p's call was answered before q's began, and they are the only calls made
LikedInSequence(p, q) ==
  /\ p # q
  /\ \E u \in Users : {p, q} = LikeCalls("p1", u)
  /\ loc[p].after = {} /\ loc[q].after = {p}
  /\ \A r \in Procs \ {p, q} : pc[r] = "idle"

\* C2 (LikeRaceSpec): likeBlog called twice in sequence for the same pair and
\* an existing post (healthy cache, the marker does not expire): the first
\* call succeeds, the second fails with AlreadyLiked, and the durable like
\* count has risen by exactly 1 over the two calls.
C2_SequentialLikeTwice ==
  \A p, q \in Procs :
    LikedInSequence(p, q)
      => /\ loc[p].result = "ok"
         /\ loc[q].result = "AlreadyLiked"
         /\ db["p1"].likes = 1

C2_Witness ==
  \E p, q \in Procs :
    /\ LikedInSequence(p, q)
    /\ loc[q].result = "AlreadyLiked"
    /\ redisHas(cache, CacheKeysUserLike(loc[q].user, "p1"))

\* the listing keys present in the cache
ListingKeys == redisKeys(cache, "blogs:all:") \cup redisKeys(cache, "blogs:user:")

\* request p has just been answered successfully
JustDone(p, op) == pc[p] = "done" /\ loc[p].op = op /\ loc[p].result = "ok"

\* the slug post id had when request p began
SlugAtBegin(p, id) == loc[p].db0[id].slug

\* the posts that were soft-deleted when request p began
GoneAtBegin(p) == {i \in DOMAIN loc[p].db0 : loc[p].db0[i].isDeleted}

\* getBlog request p looks up a post that was soft-deleted when it began
ReadsGone(p) ==
  /\ loc[p].op = "getBlog"
  /\ \E i \in GoneAtBegin(p) :
       \/ loc[p].id = i
       \/ loc[p].id = "" /\ loc[p].slug = SlugAtBegin(p, i)

\* C6 (MutSeqSpec): right after a like or an unlike of a post has been
\* answered (requests one at a time), the snapshot under its primary key, the
\* snapshot under its slug key, the trending snapshot and every listing key
\* are absent from the cache.
C6_LikeInvalidatesAll ==
  \A p \in Procs :
    (JustDone(p, "like") \/ JustDone(p, "unlike"))
      => /\ ~redisHas(cache, CacheKeysBlog(loc[p].id))
         /\ ~redisHas(cache, CacheKeysBlogSlug(SlugAtBegin(p, loc[p].id)))
         /\ ~redisHas(cache, CacheKeysTrending)
         /\ ListingKeys = {}

\* C7 (MutSeqSpec): right after a hard delete or a soft delete of a post has
\* been answered (requests one at a time), the snapshot under its primary key,
\* the snapshot under its slug key, the trending snapshot and every listing
\* key are absent from the cache.
C7_DeleteInvalidatesAll ==
  \A p \in Procs :
    (JustDone(p, "delete") \/ JustDone(p, "softDelete"))
      => /\ ~redisHas(cache, CacheKeysBlog(loc[p].id))
         /\ ~redisHas(cache, CacheKeysBlogSlug(SlugAtBegin(p, loc[p].id)))
         /\ ~redisHas(cache, CacheKeysTrending)
         /\ ListingKeys = {}

\* a delete answered, every kind of key having been cached when it began
C7_Witness ==
  \E p \in Procs :
    /\ JustDone(p, "delete") \/ JustDone(p, "softDelete")
    /\ {CacheKeysBlog("p1"), CacheKeysBlogSlug("s1"), CacheKeysTrending,
        CacheKeysAllBlogs(1, 10), CacheKeysMyBlogs("u1")} \subseteq loc[p].pre

\* C8 (MutSeqSpec): right after updateIntoDb of a post has been answered
\* (requests one at a time), the snapshot under its old slug key is absent
\* when the slug changed, the trending snapshot and every listing key are
\* absent, and a snapshot under its primary key or its current slug key
\* equals the updated durable record.
C8_UpdateRefreshes ==
  \A p \in Procs :
    JustDone(p, "update")
      => LET id == loc[p].id
             old == SlugAtBegin(p, id)
         IN /\ old # db[id].slug => ~redisHas(cache, CacheKeysBlogSlug(old))
            /\ ~redisHas(cache, CacheKeysTrending)
            /\ ListingKeys = {}
            /\ redisHas(cache, CacheKeysBlog(id)) => cache[CacheKeysBlog(id)] = db[id]
            /\ redisHas(cache, CacheKeysBlogSlug(db[id].slug))
                 => cache[CacheKeysBlogSlug(db[id].slug)] = db[id]

\* an update that changed the slug, the old slug key and a listing key having
\* been cached when it began, both snapshots cached afresh
C8_Witness ==
  \E p \in Procs :
    /\ JustDone(p, "update")
    /\ SlugAtBegin(p, "p1") = "s1" /\ db["p1"].slug = "s2"
    /\ {CacheKeysBlogSlug("s1"), CacheKeysTrending, CacheKeysMyBlogs("u1")} \subseteq loc[p].pre
    /\ redisHas(cache, CacheKeysBlog("p1")) /\ redisHas(cache, CacheKeysBlogSlug("s2"))

\* C9 (MutSeqSpec): once softDeleteIntoDb of a post has been answered
\* (requests one at a time), every later getBlog for the post, by id or by its
\* slug, fails with NotFound, also when its snapshots were cached under both
\* keys before the delete and have not expired.
C9_SoftDeletedNotFound ==
  \A p \in Procs :
    (pc[p] = "done" /\ ReadsGone(p)) => loc[p].result = "NotFound"

\* a read by slug answered NotFound, both snapshots having been cached when
\* the soft delete began
C9_Witness ==
  \E p \in Procs :
    /\ pc[p] = "done" /\ ReadsGone(p)
    /\ loc[p].slug = "s1" /\ loc[p].result = "NotFound"
    /\ {CacheKeysBlog("p1"), CacheKeysBlogSlug("s1")} \subseteq hist.sdPre

\* a snapshot of post id is cached under its primary key or under a slug key
SnapshotCached(id) ==
  \/ redisHas(cache, CacheKeysBlog(id))
  \/ \E sl \in Slugs : redisHas(cache, CacheKeysBlogSlug(sl)) /\ cache[CacheKeysBlogSlug(sl)].id = id

\* C10 (DelRaceSpec): for every interleaving of softDeleteIntoDb with getBlog
\* requests for the post, once the soft delete has been answered and no
\* request is in flight, no snapshot of the post is cached, and every getBlog
\* for the post that begins from then on fails with NotFound.
C10_SoftDeleteRaceClean ==
  /\ (Quiescent /\ db["p1"].isDeleted) => ~SnapshotCached("p1")
  /\ \A p \in Procs :
       (pc[p] = "done" /\ loc[p].quiet /\ ReadsGone(p)) => loc[p].result = "NotFound"

\* C3 (RecordViewSpec): for any number N of recordView calls for one post,
\* sequential or interleaved, a durable increment is issued exactly by the
\* call whose atomic counter increment returned a multiple of 10, always with
\* amount 10: every such counter value is flushed once, and once all N calls
\* have returned there were N div 10 increments and the persisted view count
\* is 10 * (N div 10).
C3_FlushEveryTenth ==
  LET n == redisCounter(cache, CacheKeysViews("p1"))
      log == hist.flushLog
  IN /\ \A i \in 1..Len(log) : log[i].amt = 10 /\ log[i].at > 0 /\ log[i].at % 10 = 0
     /\ \A i, j \in 1..Len(log) : i # j => log[i].at # log[j].at
     /\ \A p \in FlushPending : loc[p].views % 10 = 0
     /\ Len(log) + Cardinality(FlushPending) = n \div 10
     /\ Persisted("p1") = 10 * Len(log)
     /\ Quiescent =>
          /\ n = hist.recorded["p1"]
          /\ Len(log) = hist.recorded["p1"] \div 10
          /\ Persisted("p1") = 10 * (hist.recorded["p1"] \div 10)

\* 19 calls have returned: one durable increment, issued at counter value 10
C3_Witness ==
  /\ Quiescent
  /\ hist.recorded["p1"] = 19
  /\ hist.flushLog = <<[id |-> "p1", at |-> 10, amt |-> 10]>>
  /\ Persisted("p1") = 10

\* C4 (ViewSeqSpec): the view count returned by a getBlog served from a cache
\* hit is the persisted view count plus the unflushed delta, that is the
\* number of views recorded so far for the post.
C4_HitReturnsTotalViews ==
  \A p \in Procs :
    (pc[p] = "done" /\ loc[p].op = "getBlog" /\ loc[p].hit /\ loc[p].result = "ok")
      => /\ loc[p].out.views = Persisted(loc[p].out.id) + Unflushed(loc[p].out.id)
         /\ loc[p].out.views = hist.recorded[loc[p].out.id]

\* C5 (ViewSeqSpec): after a getBlog that missed the cache and populated it,
\* the next getBlog for the same lookup key (no mutation in between, nothing
\* expired) is served from the cache and does not query the Durable Store.
C5_SecondReadIsHit ==
  \A p \in Procs :
    (pc[p] = "done" /\ loc[p].op = "getBlog" /\ loc[p].key \in hist.populated)
      => loc[p].hit

\* what a snapshot and the durable record must agree on: everything but the
\* view count
SansViews(b) == [b EXCEPT !.views = 0]

\* the snapshots of post id cached under its primary key or its slug key
SnapshotsOf(id) ==
  {cache[k] : k \in {x \in {CacheKeysBlog(id), CacheKeysBlogSlug(db[id].slug)} :
                       redisHas(cache, x) /\ cache[x].id = id}}

\* C11 (MixRaceSpec): for every interleaving of updateIntoDb, likeBlog,
\* unlikeBlog and getBlog requests on one post, once all of them have been
\* answered, a snapshot of the post cached under its primary key or its slug
\* key has the content and the like count of the durable record (only its
\* view count may lag).
C11_SnapshotsAgreeWhenQuiet ==
  Quiescent =>
    \A id \in DOMAIN db : \A snap \in SnapshotsOf(id) : SansViews(snap) = SansViews(db[id])

\* the live record request p names, if there was one when p began
LiveTarget(p) ==
  {b \in FindBlog(loc[p].db0, loc[p].id, loc[p].slug) : ~b.isDeleted}

\* request p was given valid input: the state of the store when it began
\* allows the operation
ValidInput(p) ==
  LET d == loc[p].db0
      id == loc[p].id
  IN CASE loc[p].op = "getBlog" -> LiveTarget(p) # {}
       [] loc[p].op = "create" -> FindBySlug(d, loc[p].slug) = {}
       [] loc[p].op = "update" ->
            /\ LiveTarget(p) # {}
            /\ \A j \in DOMAIN d \ {id} : d[j].slug # loc[p].patch.slug
       [] loc[p].op = "delete" -> id \in DOMAIN d
       [] loc[p].op = "softDelete" -> LiveTarget(p) # {}
       [] loc[p].op = "like" -> id \in DOMAIN d
       [] OTHER -> FALSE

\* the Durable Store holds the effect of request p on the store p began with
Applied(p) ==
  LET d == loc[p].db0
      id == loc[p].id
  IN CASE loc[p].op = "getBlog" -> db = d /\ loc[p].out \in LiveTarget(p)
       [] loc[p].op = "create" ->
            /\ id \notin DOMAIN d /\ DOMAIN db = DOMAIN d \cup {id}
            /\ \A i \in DOMAIN d : db[i] = d[i]
            /\ db[id].slug = loc[p].slug /\ db[id].userId = loc[p].user
            /\ loc[p].out = db[id]
       [] loc[p].op = "update" -> db = [d EXCEPT ![id] = ApplyPatch(@, loc[p].patch)]
       [] loc[p].op = "delete" -> db = [i \in DOMAIN d \ {id} |-> d[i]]
       [] loc[p].op = "softDelete" -> db = [d EXCEPT ![id].isDeleted = TRUE]
       [] loc[p].op = "like" -> db = [d EXCEPT ![id].likes = @ + 1]
       [] OTHER -> FALSE

\* C12 (CacheDownSpec): with every Redis call failing, getBlog, createIntoDb,
\* updateIntoDb, deleteIntoDb, softDeleteIntoDb and likeBlog each succeed for
\* valid input, and each mutation is applied to the Durable Store: no cache
\* error reaches the caller.
C12_CacheDownStillServes ==
  \A p \in Procs :
    (pc[p] = "done" /\ ValidInput(p)) => (loc[p].result = "ok" /\ Applied(p))

\* a post created and another request answered from the store alone, nothing
\* having reached the cache
C12_Witness ==
  \E p \in Procs :
    /\ pc[p] = "done" /\ ValidInput(p) /\ loc[p].op \in {"like", "update", "getBlog"}
    /\ loc[p].result = "ok"
    /\ "p2" \in DOMAIN db
    /\ cache = loc[p].cache0 /\ ~redisHas(cache, CacheKeysBlog("p2"))

\* C13 (TwoRunsSpec): for every sequence of getBlog, createIntoDb,
\* updateIntoDb, deleteIntoDb, likeBlog and unlikeBlog requests, the outcome
\* of each call (success or the error kind) with every Redis call failing is
\* the outcome of that call in the same sequence with a healthy cache.
C13_OutageInvisible ==
  \A p \in Procs :
    (Down /\ pc[p] = "done") => loc[p].result = hist.script[hist.nCalls].result

\* C14 (LikeUnlikeSpec): starting from a post with like count 0, the persisted
\* like count of every post is never below zero, in any state reached by
\* sequences or interleavings of likeBlog and unlikeBlog calls.
C14_LikesNeverNegative ==
  \A id \in DOMAIN db : db[id].likes >= 0

\* an unlikeBlog request has been answered
UnlikeAnswered(p) == pc[p] = "done" /\ loc[p].op = "unlike"

\* the like marker of request p's (user, post) pair existed when p began
MarkerAtBegin(p) == loc[p].key \in loc[p].pre

\* answered as the marker demands: NotLiked without one; with one, success,
\* the marker gone and the persisted like count down by exactly 1
UnlikeByMarker(p) ==
  /\ loc[p].result = "NotLiked" <=> ~MarkerAtBegin(p)
  /\ MarkerAtBegin(p) =>
       /\ loc[p].result = "ok"
       /\ ~redisHas(cache, loc[p].key)
       /\ loc[p].id \in DOMAIN db
       /\ db[loc[p].id].likes = loc[p].db0[loc[p].id].likes - 1

\* C15 as stated (MutSeqSpec): with a healthy cache, unlikeBlog fails with
\* NotLiked exactly when no like marker exists for the pair; when a marker
\* exists it succeeds, the marker is absent afterwards, and the persisted like
\* count has decreased by exactly 1.
C15_UnlikeByMarker ==
  \A p \in Procs : UnlikeAnswered(p) => UnlikeByMarker(p)

\* C15 amended (MutSeqSpec): the same, for a post that is in the Durable
\* Store when unlikeBlog is called.
C15_UnlikeByMarkerOfStoredPost ==
  \A p \in Procs :
    (UnlikeAnswered(p) /\ loc[p].id \in DOMAIN loc[p].db0) => UnlikeByMarker(p)

\* an unlike of a liked post answered: the marker is gone, the count back at 0
C15_Witness ==
  \E p \in Procs :
    /\ UnlikeAnswered(p) /\ MarkerAtBegin(p) /\ loc[p].result = "ok"
    /\ loc[p].db0["p1"].likes = 1 /\ db["p1"].likes = 0
    /\ ~redisHas(cache, CacheKeysUserLike("u1", "p1"))

\* C16 (ViewFailSpec): when the redis.incr or the durable flush of the view
\* recording fails during a getBlog, the failure does not propagate: getBlog
\* still returns the post to its caller.
C16_ViewFailureContained ==
  \A p \in Procs :
    (pc[p] = "done" /\ loc[p].op = "getBlog")
      => (loc[p].result = "ok" /\ loc[p].out.id = "p1" /\ loc[p].out.slug = "s1")

\* the tenth getBlog answered: all ten increments went through, the flush due
\* at 10 failed, and nothing was persisted
C16_Witness ==
  \E p \in Procs :
    /\ pc[p] = "done" /\ loc[p].op = "getBlog" /\ loc[p].result = "ok"
    /\ hist.nCalls = 10 /\ hist.recorded["p1"] = 10
    /\ redisCounter(cache, CacheKeysViews("p1")) = 10
    /\ Persisted("p1") = 0 /\ hist.flushLog = <<>>

\* request p is suspended on an awaited call of incrementViews
AwaitsRecordView(p) == pc[p] \in {"iv_incr", "iv_flush", "iv_del"}

\* C17 (ViewSeqSpec): getBlog does not wait for the incrementViews it
\* triggers: on the hit path and on the miss path, a getBlog request is never
\* held back at an awaited step of that incrementViews (the Redis increment,
\* the durable flush, the DEL) before it can return the post.
C17_GetDoesNotWait ==
  \A p \in Procs : loc[p].op = "getBlog" => ~AwaitsRecordView(p)

\* C18 (MutSeqSpec): a getBlog that misses the cache for an id or a slug whose
\* post is absent from the Durable Store or soft-deleted fails with NotFound,
\* stores no snapshot in the cache and records no view: cache and store are
\* as they were when it began.
C18_MissOnGoneIsNotFound ==
  \A p \in Procs :
    (pc[p] = "done" /\ loc[p].op = "getBlog" /\ ~loc[p].hit /\ LiveTarget(p) = {})
      => /\ loc[p].result = "NotFound"
         /\ cache = loc[p].cache0
         /\ db = loc[p].db0

\* a read by slug of a soft-deleted post that had been viewed before, answered
\* NotFound
C18_Witness ==
  \E p \in Procs :
    /\ pc[p] = "done" /\ loc[p].op = "getBlog" /\ ~loc[p].hit
    /\ loc[p].slug = "s1" /\ loc[p].result = "NotFound"
    /\ "p1" \in DOMAIN db /\ db["p1"].isDeleted
    /\ redisCounter(cache, CacheKeysViews("p1")) > 0

\* no request but p has taken a step since p began
RanAlone(p) == loc[p].quiet /\ hist.nCalls = loc[p].call

\* request p asks for a slug that a post already used when p began:
\* createIntoDb with that slug, or updateIntoDb of a live post to the slug of
\* another post
SlugTaken(p) ==
  LET d == loc[p].db0 IN
    \/ loc[p].op = "create" /\ FindBySlug(d, loc[p].slug) # {}
    \/ /\ loc[p].op = "update" /\ LiveTarget(p) # {}
       /\ \E j \in DOMAIN d \ {loc[p].id} : d[j].slug = loc[p].patch.slug

\* C19 (SlugRaceSpec): createIntoDb with a slug already used by a post, and
\* updateIntoDb changing a post's slug to one used by another post, fail with
\* Conflict and leave the Durable Store and every cache key unchanged; and no
\* two posts in the Durable Store ever share a slug.
C19_SlugConflict ==
  /\ \A p \in Procs :
       (pc[p] = "done" /\ RanAlone(p) /\ SlugTaken(p))
         => /\ loc[p].result = "Conflict"
            /\ db = loc[p].db0
            /\ cache = loc[p].cache0
  /\ \A i, j \in DOMAIN db : i # j => db[i].slug # db[j].slug

\* an update of the second post to the slug of the first answered Conflict,
\* the snapshots of both posts being cached
C19_Witness ==
  \E p \in Procs :
    /\ pc[p] = "done" /\ RanAlone(p) /\ SlugTaken(p)
    /\ loc[p].op = "update" /\ loc[p].id = "p2" /\ loc[p].result = "Conflict"
    /\ {CacheKeysBlog("p2"), CacheKeysBlogSlug("s2")} \subseteq DOMAIN cache

\* the operations that invalidate the primary snapshot of the post they name
Invalidating == {"update", "delete", "softDelete", "like", "unlike"}

\* getBlog request p has been answered and its view recording flushed: the
\* persisted view count of the post rose while it ran
FlushedBy(p) ==
  /\ pc[p] = "done" /\ loc[p].op = "getBlog" /\ loc[p].result = "ok"
  /\ loc[p].out.id \in DOMAIN db \cap DOMAIN loc[p].db0
  /\ db[loc[p].out.id].views > loc[p].db0[loc[p].out.id].views

\* C20 (MutSeqSpec): whenever the primary snapshot of a post is invalidated
\* (by update, delete, soft delete, like, unlike or a view flush), the view
\* counter of the post is reset in the same operation: once the operation is
\* answered, the key blog:views:<id> does not exist.
C20_InvalidationResetsViewCounter ==
  \A p \in Procs :
    /\ (\E op \in Invalidating : JustDone(p, op))
         => ~redisHas(cache, CacheKeysViews(loc[p].id))
    /\ FlushedBy(p) => ~redisHas(cache, CacheKeysViews(loc[p].out.id))

\* the value of the view counter of post id in cache c
ViewCounter(c, id) == redisCounter(c, CacheKeysViews(id))

\* this step is the INCR of a view recording for post id
RecordsView(id) ==
  \E p \in Procs :
    /\ pc[p] = "iv_incr" /\ pc'[p] # "iv_incr"
    /\ loc[p].blog.id = id

\* C21 (MutSeqSpec): the view counter of a post never decreases: while no
\* counter key is evicted, the step of incrementViews that records a view
\* raises the counter of its post by exactly 1, and every other step of every
\* operation leaves every view counter as it was.
C21_ViewCounterMonotone ==
  [][\A id \in AllIds :
       IF RecordsView(id)
         THEN ViewCounter(cache', id) = ViewCounter(cache, id) + 1
         ELSE ViewCounter(cache', id) = ViewCounter(cache, id)]_vars

\* an update has been answered after two views were recorded, and the counter
\* still stands at 2
C21_Witness ==
  \E p \in Procs :
    /\ \E op \in {"update", "like", "softDelete"} : JustDone(p, op)
    /\ ViewCounter(cache, "p1") = 2
    /\ hist.recorded["p1"] = 2

\* C22 (CreateSeqSpec): as soon as createIntoDb has answered, no other
\* request being in flight, the trending snapshot, every listing page
\* (blogs:all:*) and the listing of every owner (blogs:user:*) are absent from
\* the cache.
C22_CreateClearsListings ==
  \A p \in Procs :
    JustDone(p, "create") /\ Quiescent
      => /\ ~redisHas(cache, CacheKeysTrending)
         /\ ListingKeys = {}

\* how often tag t occurs in the list s
Occurrences(t, s) == Cardinality({i \in 1..Len(s) : s[i] = t})

\* the lists s and u hold the same tags the same number of times
IsPermutation(s, u) == \A t \in Tags : Occurrences(t, s) = Occurrences(t, u)

\* search request q began after search request p had been answered
SearchedAfter(p, q) ==
  /\ loc[p].op = "searchByTags" /\ loc[q].op = "searchByTags"
  /\ pc[p] = "done" /\ p \in loc[q].after

\* C26 (SearchPairSpec): two calls of searchByTags whose tag lists are
\* permutations of each other use the same cache key; the second call, made
\* after the first has populated the cache, is served from that entry and
\* returns the same list.
C26_PermutedTagsShareEntry ==
  \A p, q \in Procs :
    SearchedAfter(p, q) /\ IsPermutation(loc[p].tags, loc[q].tags)
      => /\ loc[q].key = loc[p].key
         /\ pc[q] = "done" => loc[q].hit /\ loc[q].list = loc[p].list

\* [a, b] was searched and answered from the store, [b, a] afterwards from
\* the cache, both finding the two posts
C26_Witness ==
  \E p, q \in Procs :
    /\ SearchedAfter(p, q) /\ pc[q] = "done"
    /\ loc[p].tags = <<"a", "b">> /\ loc[q].tags = <<"b", "a">>
    /\ ~loc[p].hit /\ loc[q].hit /\ Len(loc[q].list) = 2

\* C27 (SearchPairSpec): the cache key of searchByTags depends only on the
\* set of the tags given: two lists with the same distinct tags, differing in
\* repeated ones only, are looked up under the same key.
C27_KeyOfTagSet ==
  \A p, q \in Procs :
    /\ loc[p].op = "searchByTags" /\ loc[q].op = "searchByTags"
    /\ Range(loc[p].tags) = Range(loc[q].tags)
    => loc[p].key = loc[q].key

\* the copies of posts held in the cache entry of key k
CachedPosts(k) ==
  IF \E i \in AllIds : k = CacheKeysBlog(i) THEN {cache[k]}
  ELSE IF HasPrefix(k, "blog:slug:") THEN {cache[k]}
  ELSE IF HasPrefix(k, "blogs:all:") THEN Range(cache[k].blogs)
  ELSE IF HasPrefix(k, "blogs:") THEN Range(cache[k])
  ELSE {}

\* some cache entry holds post id as it was when request p began
HoldsOldVersion(p, id) ==
  \E k \in DOMAIN cache : \E r \in CachedPosts(k) :
    r.id = id /\ SansViews(r) = SansViews(loc[p].db0[id])

\* request p has changed or removed the record of post id
Mutated(p, id) == id \notin DOMAIN db \/ db[id] # loc[p].db0[id]

\* C23 (SearchSeqSpec): once an update, a soft delete or a hard delete of a
\* post has been answered, no cache entry of any kind (snapshot, listing page,
\* listing of an owner, trending snapshot, tag-search result) holds the
\* version of the post from before the mutation; a cached tag search does not
\* go on returning a soft-deleted post.
C23_NoEntryKeepsOldVersion ==
  \A p \in Procs :
    /\ \E op \in {"update", "delete", "softDelete"} : JustDone(p, op)
    /\ Mutated(p, loc[p].id)
    => ~HoldsOldVersion(p, loc[p].id)

\* the snapshot, listing and trending keys of cache c
ContentKeys(c) ==
  {k \in DOMAIN c :
     \/ \E i \in AllIds : k = CacheKeysBlog(i)
     \/ HasPrefix(k, "blog:slug:")
     \/ HasPrefix(k, "blogs:all:") \/ HasPrefix(k, "blogs:user:")
     \/ k = CacheKeysTrending}

\* the snapshot, listing and trending keys gone since request p began
RemovedSince(p) == ContentKeys(loc[p].cache0) \ DOMAIN cache

\* the Durable Store holds the effect of mutation p on the state p began in
DurableEffect(p) ==
  LET d == loc[p].db0
      id == loc[p].id
  IN CASE loc[p].op = "update" -> db = [d EXCEPT ![id] = ApplyPatch(@, loc[p].patch)]
       [] loc[p].op = "delete" -> db = [i \in DOMAIN d \ {id} |-> d[i]]
       [] loc[p].op = "softDelete" -> db = [d EXCEPT ![id].isDeleted = TRUE]
       [] loc[p].op = "like" -> db = [d EXCEPT ![id].likes = @ + 1]
       [] loc[p].op = "unlike" -> db = [d EXCEPT ![id].likes = @ - 1]
       [] OTHER -> FALSE

\* C24 (MutFailSpec): in every mutation (update, hard delete, soft delete,
\* like, unlike) the write to the Durable Store comes before the invalidation:
\* while the invalidator runs, and whenever a snapshot, listing or trending key
\* has been removed, the store holds the effect of the mutation; and a
\* mutation that is answered with an error has removed none of these keys.
C24_WriteBeforeInvalidate ==
  \A p \in Procs :
    loc[p].op \in Invalidating =>
      /\ pc[p] \in {"inv_all", "inv_user", "inv_del"} => DurableEffect(p)
      /\ RemovedSince(p) # {} => DurableEffect(p)
      /\ pc[p] = "done" /\ loc[p].result # "ok" => RemovedSince(p) = {}

\* the store rejected the write of a like of a stored post while the snapshot
\* and the trending list were cached: the call failed and both are still there
C24_Witness ==
  \E p \in Procs :
    /\ pc[p] = "done" /\ loc[p].op \in Invalidating /\ loc[p].result = "Error"
    /\ loc[p].id \in DOMAIN db /\ db = loc[p].db0
    /\ {CacheKeysBlog(loc[p].id), CacheKeysTrending} \subseteq DOMAIN cache

\* trending request p has been answered from the Durable Store
TrendingMiss(p) ==
  pc[p] = "done" /\ loc[p].op = "getTrendingBlogs" /\ ~loc[p].hit

\* a ranks no lower than b by persisted views, then persisted likes
RanksNoLower(a, b) == a.views > b.views \/ (a.views = b.views /\ a.likes >= b.likes)

C28_EveryRequestAnswered ==
  \A p \in Procs : (pc[p] # "idle") ~> (pc[p] = "done")

\* request p takes a step of incrementViews
RecordViewStep(p) == AwaitsRecordView(p) /\ pc'[p] # pc[p]

\* C29 (ViewSeqSpec): recordView removes the primary snapshot of the post
\* only when the counter has landed on a flush boundary (a multiple of 10): a
\* step of a view recording whose counter value is not a multiple of 10
\* leaves the primary snapshot, the slug snapshot and every listing key as
\* they were.
C29_DelOnlyAtFlushBoundary ==
  [][\A p \in Procs :
       RecordViewStep(p) /\ ViewCounter(cache', loc[p].blog.id) % BatchSize # 0
         => /\ ContentKeys(cache') = ContentKeys(cache)
            /\ \A k \in ContentKeys(cache) : cache'[k] = cache[k]]_vars

\* C30 (RecordViewFailSpec): in every quiescent state reached by recordView
\* calls, the cache keeping the counter, the number of recorded views that the
\* persisted view count does not reflect yet is between 0 and 9, also after
\* the durable write of an earlier flush has failed.
C30_UnflushedBelowBatch ==
  Quiescent => \A id \in DOMAIN db : Unflushed(id) >= 0 /\ Unflushed(id) <= BatchSize - 1

\* request p was a like rejected as AlreadyLiked or an unlike rejected as
\* NotLiked
RejectedByMarker(p) ==
  /\ pc[p] = "done"
  /\ \/ loc[p].op = "like" /\ loc[p].result = "AlreadyLiked"
     \/ loc[p].op = "unlike" /\ loc[p].result = "NotLiked"

\* C31 (MutSeqSpec): a like rejected as AlreadyLiked and an unlike rejected
\* as NotLiked change nothing: the like marker, the cached like counter, the
\* persisted like count and every cached snapshot and listing are the same
\* after the rejected call as they were before it.
C31_RejectedLikeChangesNothing ==
  \A p \in Procs :
    RejectedByMarker(p) => cache = loc[p].cache0 /\ db = loc[p].db0

\* a second like of the pair was rejected while the marker, the like counter
\* and a snapshot of the post were cached
C31_Witness ==
  \E p \in Procs :
    /\ RejectedByMarker(p) /\ loc[p].op = "like"
    /\ redisHas(cache, CacheKeysUserLike(loc[p].user, loc[p].id))
    /\ redisCounter(cache, CacheKeysLikes(loc[p].id)) = 1
    /\ db[loc[p].id].likes = 1
    /\ ContentKeys(cache) # {}

\* the post that like request p names was absent from the Durable Store or
\* soft-deleted when p began
LikesGonePost(p) ==
  /\ pc[p] = "done" /\ loc[p].op = "like"
  /\ loc[p].id \notin DOMAIN loc[p].db0 \/ loc[p].db0[loc[p].id].isDeleted

\* C32 (MutSeqSpec): a like of a post that is absent from the Durable Store
\* or soft-deleted fails, and after the failed call the pair has no like
\* marker and the cached like counter is what it was, so that a later like of
\* the pair is not rejected as AlreadyLiked without a durable increment.
C32_LikeOfGonePostLeavesNoMarker ==
  \A p \in Procs :
    LikesGonePost(p) /\ ~redisHas(loc[p].cache0, loc[p].key)
      => /\ loc[p].result # "ok"
         /\ ~redisHas(cache, CacheKeysUserLike(loc[p].user, loc[p].id))
         /\ redisCounter(cache, CacheKeysLikes(loc[p].id))
              = redisCounter(loc[p].cache0, CacheKeysLikes(loc[p].id))

\* the keys of the other kinds: slug snapshots, view and like counters and
\* like markers
OtherKindKeys ==
  {CacheKeysBlogSlug(sl) : sl \in Slugs}
    \cup {CacheKeysViews(i) : i \in AllIds} \cup {CacheKeysLikes(i) : i \in AllIds}
    \cup {CacheKeysUserLike(u, i) : u \in Users, i \in AllIds}

\* request p reads a post by its id
ReadsById(p) == loc[p].op = "getBlog" /\ loc[p].id # ""

\* C33 (KeyClashSpec): the cache keys of different kinds never collide: for
\* every id a read accepts, the primary key built from it is not the slug key
\* of any slug, nor a view counter, like counter or like marker key, so that
\* a read by id is never answered from an entry written under another kind
\* of key.
C33_KeyKindsDisjoint ==
  \A p \in Procs :
    ReadsById(p) =>
      /\ loc[p].key \notin OtherKindKeys
      /\ pc[p] = "done" /\ loc[p].hit => loc[p].out.id = loc[p].id

\* C34 (TrendingSpec): trending(limit) never returns more than limit posts,
\* be it answered from the cache or from the Durable Store, whatever limits
\* the trending calls before it were made with.
C34_TrendingWithinLimit ==
  \A p \in Procs :
    pc[p] = "done" /\ loc[p].op = "getTrendingBlogs"
      => Len(loc[p].list) <= loc[p].limit

====
